---- MODULE Spec2Model ----
(***************************************************************************)
(* LCA / cost matching-and-computation engine of LCA-Cost-NHMzh.           *)
(*                                                                         *)
(* Numbers.  Python floats are modelled as exact decimal fixed-point       *)
(* integers:                                                               *)
(*   volumes, areas, lengths, indicator factors, cost rates : hundredths   *)
(*   densities, service-life years                          : units        *)
(*   fractions                                              : tenths       *)
(*   every number reported in a result component            : thousandths  *)
(* round(x, n) is Python's round-half-to-even on the exact value.          *)
(*                                                                         *)
(* Python dictionaries.  A field that a dict may lack is a Val record:     *)
(* tag "absent" (no such key), "none" (key present, value None) or "num".  *)
(* A string-valued key that is absent is the string NoKey.                 *)
(***************************************************************************)
EXTENDS Integers, Sequences, FiniteSets, TLC

\* ---------------------------------------------------------------- bounds
MaxElems == 2
MaxMats == 2

\* ------------------------------------------------------- python values
Num(n) == [tag |-> "num", v |-> n]
AbsentV == [tag |-> "absent", v |-> 0]
NoneV == [tag |-> "none", v |-> 0]
NoKey == "<no key>"

\* dict.get(key, default) on a Val field
DictGet(val, default) == IF val.tag = "absent" THEN default ELSE val

\* Python truthiness of an optional string (None and "" are falsy)
Truthy(s) == s # NoKey /\ s # ""

\* str.strip() on the classification codes the model uses
Strip(s) ==
    CASE s = " C " -> "C"
      [] s = " " -> ""
      [] OTHER -> s

\* round(n / d) to the nearest integer, ties to even (Python round)
RoundHalfEven(n, d) ==
    LET nn == IF d < 0 THEN -n ELSE n
        dd == IF d < 0 THEN -d ELSE d
        q == nn \div dd
        r == nn % dd
    IN  IF 2 * r < dd THEN q
        ELSE IF 2 * r > dd THEN q + 1
        ELSE IF q % 2 = 0 THEN q ELSE q + 1

\* an exception: its class, its message text and the value formatted into it
Exc(type, msg, name, num) == [type |-> type, msg |-> msg, name |-> name, num |-> num]
NoExc == Exc("", "", "", 0)
\* str(e)
ErrText(e) == [msg |-> e.msg, name |-> e.name, num |-> e.num]

TypeErrorLE == Exc("TypeError", "'<=' not supported between instances of 'NoneType' and 'int'", "", 0)

\* ------------------------------------------------------------ variables
VARIABLES
    \* storage (DatabaseManager tables)
    kbob_versions,       \* set of [version, is_active, release_date]
    kbob_materials,      \* set of reference rows, keyed by (uuid, version)
    life_expectancy,     \* set of [ebkp_code, description, years]
    projects,            \* project_id -> [status, kbob_version]; status "none" = no row
    processing_errors,   \* sequence of logged error rows
    processing_history,  \* sequence of history rows
    processing_results,  \* sequence of saved result rows
    ifc_elements,        \* table ifc_elements: id -> row
    \* inputs of the LCA run (file contents)
    input_file,          \* the "elements" list of the element batch file
    mappings_file,       \* the material mapping list
    lca_project_id,      \* self.project_id of the LCAProcessor
    \* LCAProcessor object and the locals of its methods
    lca_pc,              \* position of LCAProcessor.run
    lca_exc,             \* the exception run() raised, NoExc if none
    lca_element_data,    \* self.element_data["elements"]
    lca_material_mappings, \* self.material_mappings
    lca_results,         \* self.results
    active_version,      \* process_data: active_version
    material_mappings,   \* process_data: material_mappings dict
    results,             \* process_data: results
    total_elements,
    processed_elements,
    failed_elements,
    elem_idx,            \* loop position: index of the current element
    mat_idx,             \* loop position: index of the current material
    element_result,      \* process_data: element_result["components"]
    \* inputs of the cost run (file contents)
    cost_input_file,     \* the element table: [columns, rows]
    cost_data_file,      \* the cost reference table: [columns, rows]
    cost_project_id,     \* self.project_id of the CostProcessor
    \* CostProcessor object and the locals of its process_data
    cost_pc,             \* position of CostProcessor.run
    cost_exc,            \* the exception run() raised, NoExc if none
    cost_element_data,   \* self.element_data (a frame: [columns, rows])
    cost_data,           \* self.data (a frame indexed by Code: [columns, rows])
    cost_self_results,   \* self.results
    cost_results,        \* process_data: results
    cost_total_elements,
    cost_processed_elements,
    cost_failed_elements,
    cost_idx,            \* loop position: index of the current row
    \* run_processors.main
    main_pc,             \* position of main: "running" or "combined"
    combined_results,    \* main: combined_results
    \* object archive (MinioManager)
    minio_objects,       \* the objects of the bucket: set of [data_type, project_id, filename, timestamp, last_modified, data]
    minio_clock,         \* the time of the next store
    \* reference data administration
    admin_exc,           \* the exception the last administration call raised, NoExc if none
    \* tables the orchestrated pipeline loads its batches from
    ifc_element_materials,   \* table ifc_element_materials, rows in insertion order
    material_mappings_table, \* table material_mappings, rows in insertion order
    cost_reference,          \* table cost_reference, rows in insertion order
    \* Orchestrator
    orch_pc,             \* position of the consumer loop
    input_topic,         \* messages not yet polled
    orch_msg,            \* the message being handled
    output_topic,        \* responses produced
    orch_trace           \* the steps of process_ifc started and returned, in order

dbVars == <<kbob_versions, kbob_materials, life_expectancy, projects,
            processing_errors, processing_history, processing_results, ifc_elements>>
lcaInputs == <<input_file, mappings_file, lca_project_id>>
lcaSelf == <<lca_pc, lca_exc, lca_element_data, lca_material_mappings, lca_results>>
lcaLocals == <<active_version, material_mappings, results, total_elements,
               processed_elements, failed_elements, elem_idx, mat_idx, element_result>>
costInputs == <<cost_input_file, cost_data_file, cost_project_id>>
costSelf == <<cost_pc, cost_exc, cost_element_data, cost_data, cost_self_results>>
costLocals == <<cost_results, cost_total_elements, cost_processed_elements,
                cost_failed_elements, cost_idx>>
lcaVars == <<lcaInputs, lcaSelf, lcaLocals>>
costVars == <<costInputs, costSelf, costLocals>>
mainVars == <<main_pc, combined_results>>
archiveVars == <<minio_objects, minio_clock>>
adminVars == <<admin_exc>>
storedVars == <<ifc_element_materials, material_mappings_table, cost_reference>>
orchVars == <<orch_pc, input_topic, orch_msg, output_topic, orch_trace>>
vars == <<dbVars, lcaVars, costVars, mainVars, archiveVars, adminVars, storedVars, orchVars>>

LcaProject == "P-lca"
CostProject == "P-cost"
\* DEFAULT_PROJECT_ID: the project every engine of the orchestrator runs under
SharedProject == "default"
ProjectIds == {LcaProject, CostProject, SharedProject}

\* ------------------------------------------------------ storage queries
\* DatabaseManager.get_active_kbob_version: newest active version, or None
NoVersion == "<none>"
get_active_kbob_version(versions) ==
    LET act == {r \in versions : r.is_active}
    IN  IF act = {} THEN NoVersion
        ELSE (CHOOSE r \in act : \A o \in act : o.release_date <= r.release_date).version

\* DatabaseManager.get_kbob_material(uuid, version): the set of matching rows
get_kbob_material(materials, uuid, version) ==
    {r \in materials : r.uuid = uuid /\ r.version = version}

\* variant: MAX(years) in place of MIN(years)
get_life_expectancy_max(table, ebkp_code) ==
    IF ~Truthy(ebkp_code) THEN 0
    ELSE LET rows == {r \in table : r.ebkp_code = Strip(ebkp_code)}
         IN  IF rows = {} THEN 0
             ELSE (CHOOSE r \in rows : \A o \in rows : r.years >= o.years).years

\* LCAProcessor.get_life_expectancy: MIN(years) of the rows for the stripped
\* code; None (modelled as 0, which `or 60` treats alike) when there is none
get_life_expectancy(table, ebkp_code) ==
    IF ~Truthy(ebkp_code) THEN 0
    ELSE LET rows == {r \in table : r.ebkp_code = Strip(ebkp_code)}
         IN  IF rows = {} THEN 0
             ELSE (CHOOSE r \in rows : \A o \in rows : r.years <= o.years).years

DefaultLifeExpectancy == 60

\* `get_life_expectancy(ebkp) or 60`
LifeOrDefault(table, ebkp) ==
    LET y == get_life_expectancy(table, ebkp)
    IN  IF y = 0 THEN DefaultLifeExpectancy ELSE y

\* --------------------------------------------------- LCAProcessor helpers
EmptyMaterialData == [volume |-> AbsentV, fraction |-> AbsentV, density |-> AbsentV]

\* element.get("material_volumes", {}).get(material_name, {})
MaterialData(element, material_name) ==
    IF material_name \in DOMAIN element.material_volumes
    THEN element.material_volumes[material_name]
    ELSE EmptyMaterialData

\* validate_data, the body of the per-element try block: TRUE iff no ValueError
ElementIsValid(element) ==
    /\ Truthy(element.guid) \/ Truthy(element.id)
    /\ element.materials # <<>>
    /\ \E k \in 1..Len(element.materials) :
          LET volume == MaterialData(element, element.materials[k]).volume
          IN  volume.tag = "num" /\ volume.v > 0

\* validate_data: valid_elements
ValidElements(elements) == SelectSeq(elements, ElementIsValid)

\* process_data: the material_mappings dict comprehension (a later item of the
\* list overwrites an earlier one; items with a falsy kbob_id are left out)
BuildMappings(items) ==
    LET kept == {k \in 1..Len(items) : Truthy(items[k].kbob_id)}
        names == {items[k].ifc_material : k \in kept}
        last(n) == CHOOSE k \in kept :
                      /\ items[k].ifc_material = n
                      /\ \A o \in kept : items[o].ifc_material = n => o <= k
    IN  [n \in names |-> items[last(n)].kbob_id]

\* variant: an unmapped material falls back to a default reference key
MappingGet_default(mappings, material_name) ==
    IF material_name \in DOMAIN mappings THEN mappings[material_name] ELSE "K1"

\* material_mappings.get(material_name)
MappingGet(mappings, material_name) ==
    IF material_name \in DOMAIN mappings THEN mappings[material_name] ELSE NoKey

\* element.get("properties", {}).get("ebkp", "")
ElementEbkp(element) == IF element.ebkp = NoKey THEN "" ELSE element.ebkp

\* variant: the check of line 175 left out, so a density of 0 is computed with
PairError_density_unchecked(element, material_name, mappings, version, materials) ==
    LET material_data == MaterialData(element, material_name)
        volume == DictGet(material_data.volume, Num(0))
        kbob_id == MappingGet(mappings, material_name)
    IN  IF volume.tag = "none" THEN TypeErrorLE
        ELSE IF volume.v <= 0 THEN Exc("ValueError", "Invalid volume", "", volume.v)
        ELSE IF ~Truthy(kbob_id)
             THEN Exc("ValueError", "Material mapping not found", material_name, 0)
        ELSE IF get_kbob_material(materials, kbob_id, version) = {}
             THEN Exc("ValueError", "KBOB ID not found", kbob_id, 0)
        ELSE NoExc

\* process_data, lines 166-185: the exception the inner try block raises for
\* one (element, material) pair, NoExc when it reaches the computation
PairError(element, material_name, mappings, version, materials) ==
    LET material_data == MaterialData(element, material_name)
        volume == DictGet(material_data.volume, Num(0))
        density == DictGet(material_data.density, Num(0))
        kbob_id == MappingGet(mappings, material_name)
    IN  IF volume.tag = "none" THEN TypeErrorLE
        ELSE IF volume.v <= 0 THEN Exc("ValueError", "Invalid volume", "", volume.v)
        ELSE IF density.tag = "none" THEN TypeErrorLE
        ELSE IF density.v <= 0 THEN Exc("ValueError", "Invalid density", "", density.v)
        ELSE IF ~Truthy(kbob_id)
             THEN Exc("ValueError", "Material mapping not found", material_name, 0)
        ELSE IF get_kbob_material(materials, kbob_id, version) = {}
             THEN Exc("ValueError", "KBOB ID not found", kbob_id, 0)
        ELSE NoExc

\* variant: the impact computed from the volume alone, density left out
Impact_no_density(volume, density, indicator) == volume * indicator

\* volume * density * indicator, in 1/10000
Impact(volume, density, indicator) == volume * density * indicator

\* round(x, 3) and round(x, 0) of a value in 1/10000 divided by `years`,
\* reported in thousandths
Round3(x, years) == RoundHalfEven(x, 10 * years)
Round0(x, years) == 1000 * RoundHalfEven(x, 10000 * years)

\* variant: the per-year values computed from the rounded absolute values
SuccessComponent_from_reported(element, material_name, mappings, version, materials, life) ==
    LET material_data == MaterialData(element, material_name)
        volume == DictGet(material_data.volume, Num(0)).v
        density == DictGet(material_data.density, Num(0)).v
        kbob_id == MappingGet(mappings, material_name)
        kbob_material == CHOOSE r \in get_kbob_material(materials, kbob_id, version) : TRUE
        ebkp == ElementEbkp(element)
        life_exp == LifeOrDefault(life, ebkp)
        co2_eq == RoundHalfEven(volume * density * kbob_material.indicator_co2eq, 10)
        penre == RoundHalfEven(volume * density * kbob_material.indicator_penre, 10)
        ubp == RoundHalfEven(volume * density * kbob_material.indicator_ubp, 10000)
    IN  [guid |-> element.id,
         material |-> material_name,
         mat_kbob |-> kbob_id,
         kbob_material_name |-> kbob_material.name,
         volume |-> 10 * volume,
         density |-> 1000 * density,
         amortization |-> life_exp,
         ebkp_h |-> ebkp,
         gwp_absolute |-> co2_eq,
         gwp_relative |-> RoundHalfEven(co2_eq, life_exp),
         penr_absolute |-> penre,
         penr_relative |-> RoundHalfEven(penre, life_exp),
         ubp_absolute |-> 1000 * ubp,
         ubp_relative |-> 1000 * RoundHalfEven(ubp, life_exp),
         failed |-> FALSE]

\* process_data, lines 187-212: the success component
SuccessComponent(element, material_name, mappings, version, materials, life) ==
    LET material_data == MaterialData(element, material_name)
        volume == DictGet(material_data.volume, Num(0)).v
        density == DictGet(material_data.density, Num(0)).v
        kbob_id == MappingGet(mappings, material_name)
        kbob_material == CHOOSE r \in get_kbob_material(materials, kbob_id, version) : TRUE
        ebkp == ElementEbkp(element)
        life_exp == LifeOrDefault(life, ebkp)
        co2_eq == Impact(volume, density, kbob_material.indicator_co2eq)
        penre == Impact(volume, density, kbob_material.indicator_penre)
        ubp == Impact(volume, density, kbob_material.indicator_ubp)
    IN  [guid |-> element.id,
         material |-> material_name,
         mat_kbob |-> kbob_id,
         kbob_material_name |-> kbob_material.name,
         volume |-> 10 * volume,
         density |-> 1000 * density,
         amortization |-> life_exp,
         ebkp_h |-> ebkp,
         gwp_absolute |-> Round3(co2_eq, 1),
         gwp_relative |-> Round3(co2_eq, life_exp),
         penr_absolute |-> Round3(penre, 1),
         penr_relative |-> Round3(penre, life_exp),
         ubp_absolute |-> Round0(ubp, 1),
         ubp_relative |-> Round0(ubp, life_exp),
         failed |-> FALSE]

\* variant of the failed component that carries a generic text instead of str(e)
FailedComponent_generic(element, material_name, e) ==
    [guid |-> element.id, material |-> material_name, failed |-> TRUE,
     error |-> [msg |-> "Processing failed", name |-> "", num |-> 0]]

\* process_data, lines 225-231: the failed component
FailedComponent(element, material_name, e) ==
    [guid |-> element.id, material |-> material_name, failed |-> TRUE, error |-> ErrText(e)]

\* process_data, lines 165-232: the component one pass of the material loop appends
ProcessMaterial(element, material_name, mappings, version, materials, life) ==
    LET e == PairError(element, material_name, mappings, version, materials)
    IN  IF e = NoExc
        THEN SuccessComponent(element, material_name, mappings, version, materials, life)
        ELSE FailedComponent(element, material_name, e)

\* process_data, lines 215-223: the row log_processing_error inserts
ErrorRow(project_id, element, material_name, e) ==
    [project_id |-> project_id, element_id |-> element.id, material_name |-> material_name,
     error_type |-> e.type, error_message |-> ErrText(e)]

\* process_data, lines 234-237: the element result
ElementResult(element, components) ==
    [guid |-> element.id, components |-> components, shared_guid |-> Len(components) > 1]

\* ------------------------------------------------------------ save path
RECURSIVE Flatten(_)
\* the components of a result list, in order
Flatten(rs) == IF rs = <<>> THEN <<>> ELSE Head(rs).components \o Flatten(Tail(rs))

\* save_project_results, lines 789-833: the row inserted for one component.
\* Columns volume .. ebkp_h are component.get(<column>), kept as `component`.
ResultRow(project_id, component, version) ==
    [project_id |-> project_id,
     element_id |-> component.guid,
     material_name |-> component.material,
     kbob_uuid |-> IF component.failed THEN ""
                   ELSE IF "mat_kbob" \in DOMAIN component THEN component.mat_kbob
                   ELSE NoKey,
     kbob_version |-> version,
     failed |-> component.failed,
     component |-> component]

\* save_project_results: the rows of one transaction
ResultRows(project_id, rs, version) ==
    LET cs == Flatten(rs)
    IN  [k \in 1..Len(cs) |-> ResultRow(project_id, cs[k], version)]

\* save_project_results: TRUE iff every INSERT satisfies the constraints of
\* processing_results (element_id REFERENCES ifc_elements, kbob_version NOT NULL)
InsertsAccepted(rs, version, elements) ==
    \A k \in 1..Len(Flatten(rs)) :
        /\ Flatten(rs)[k].guid \in elements
        /\ version # NoVersion

\* ------------------------------------------------- CostProcessor helpers
\* a table (DataFrame): the names of its columns and its rows
EmptyFrame == [columns |-> {}, rows |-> <<>>]

\* Series.astype(str): a missing value becomes the text "nan"
AsStr(s) == IF s = NoKey THEN "nan" ELSE s

\* load_data, lines 49-59: the columns of the element frame after the renames
LoadedColumns(columns) ==
    columns
    \cup (IF "id" \in columns THEN {"GUID", "KBOB UUID-Nummer"} ELSE {})
    \cup (IF "volume_net" \in columns THEN {"Volume"} ELSE {})
    \cup (IF "length" \in columns THEN {"Length"} ELSE {})
    \cup (IF "area_net" \in columns THEN {"Area"} ELSE {})
    \cup (IF "ebkp" \in columns THEN {"eBKP-H"} ELSE {})

\* store_ifc_elements, lines 409-412: the ids of the rows it inserts or updates
StoredIds(frame) ==
    IF "id" \in frame.columns
    THEN {frame.rows[k].GUID : k \in {j \in 1..Len(frame.rows) : Truthy(frame.rows[j].GUID)}}
    ELSE {}

\* a row of table ifc_elements: its project, classification code and quantities
IfcElementRow(project_id, ebkp, volume_net, volume_gross, area_net, area_gross, length, width, height) ==
    [project_id |-> project_id, ebkp |-> ebkp,
     volume_net |-> volume_net, volume_gross |-> volume_gross,
     area_net |-> area_net, area_gross |-> area_gross,
     length |-> length, width |-> width, height |-> height]

\* store_ifc_elements, lines 413-425, on a record of the element frame: the
\* record has no "quantities" and no "properties" entry, so every quantity and
\* the classification code read from them is None
FlatRecordRow(project_id) ==
    IfcElementRow(project_id, NoKey, NoneV, NoneV, NoneV, NoneV, NoneV, NoneV, NoneV)

\* store_ifc_elements, lines 409-470, first transaction: a row whose id is in
\* the table is updated (its project_id kept), any other is inserted
store_ifc_elements(table, frame, project_id) ==
    LET ids == StoredIds(frame)
    IN  [id \in DOMAIN table \cup ids |->
            IF id \notin ids
            THEN table[id]
            ELSE IF id \in DOMAIN table
            THEN FlatRecordRow(table[id].project_id)
            ELSE FlatRecordRow(project_id)]

\* input_file_path=None, data_file_path=None: no file, the table is loaded
\* from the database
NoFramePath == [columns |-> {"<None>"}, rows |-> <<>>]

\* the order of the rows of a SELECT over table ifc_elements, by id
IdOrder == <<"E1", "E2", "U1", "U2", "U3", "U4">>

\* the columns of table ifc_elements (SELECT *)
IfcElementColumns ==
    {"id", "ifc_class", "object_type", "load_bearing", "is_external", "ebkp",
     "volume_net", "volume_gross", "area_net", "area_gross", "length", "width",
     "height", "project_id", "timestamp"}

\* load_data, lines 36-46: the frame of the rows of the project, each with the
\* six columns of the element file set from its id, quantities and code (a
\* code of None reads "None" once cast to text)
ElementFrame(table, project_id) ==
    LET ids == SelectSeq(IdOrder,
                         LAMBDA id : id \in DOMAIN table /\ table[id].project_id = project_id)
    IN  [columns |-> IF ids = <<>> THEN {}
                     ELSE IfcElementColumns \cup {"GUID", "Volume", "Length", "Area",
                                                  "KBOB UUID-Nummer", "eBKP-H"},
         rows |-> [k \in 1..Len(ids) |->
                      [GUID |-> ids[k],
                       ebkp |-> IF table[ids[k]].ebkp = NoKey THEN "None" ELSE table[ids[k]].ebkp,
                       Area |-> table[ids[k]].area_net,
                       Length |-> table[ids[k]].length]]]

\* a row of table cost_reference (the columns get_cost_data reads)
CostReferenceRow(ebkp_code, cost_per_unit, unit) ==
    [ebkp_code |-> ebkp_code, cost_per_unit |-> cost_per_unit, unit |-> unit]

\* DatabaseManager.get_cost_data: ebkp_code AS Code, cost_per_unit AS Kennwert,
\* unit AS reference, created_at
db_get_cost_data(rows) ==
    [columns |-> IF rows = <<>> THEN {} ELSE {"Code", "Kennwert", "reference", "created_at"},
     rows |-> [k \in 1..Len(rows) |->
                  [Code |-> rows[k].ebkp_code, Kennwert |-> rows[k].cost_per_unit,
                   reference |-> rows[k].unit]]]

\* validate_data, lines 205-212
RequiredColumns == <<"GUID", "Volume", "Length", "Area", "KBOB UUID-Nummer", "eBKP-H">>

RECURSIVE JoinMissing(_, _)
\* ', '.join(missing_columns)
JoinMissing(required, columns) ==
    IF required = <<>> THEN ""
    ELSE LET rest == JoinMissing(Tail(required), columns)
         IN  IF Head(required) \in columns THEN rest
             ELSE IF rest = "" THEN Head(required)
             ELSE Head(required) \o ", " \o rest

\* variant: the columns of the element table not validated
CostValidateError_elements_unchecked(element_columns, data_columns) ==
    IF "Code" \notin data_columns
    THEN Exc("ValueError", "Cost data is missing 'Code' column", "", 0)
    ELSE NoExc

\* validate_data: the exception it raises, NoExc when both tables pass
CostValidateError(element_columns, data_columns) ==
    IF JoinMissing(RequiredColumns, element_columns) # ""
    THEN Exc("ValueError", "Missing required columns",
             JoinMissing(RequiredColumns, element_columns), 0)
    ELSE IF "Code" \notin data_columns
    THEN Exc("ValueError", "Cost data is missing 'Code' column", "", 0)
    ELSE NoExc

\* validate_data, lines 217-218: Code as stripped text, made the index
IndexByCode(frame) ==
    [columns |-> frame.columns \ {"Code"},
     rows |-> [k \in 1..Len(frame.rows) |->
                  [frame.rows[k] EXCEPT !.Code = Strip(AsStr(frame.rows[k].Code))]]]

\* process_data, line 90: eBKP-H as stripped text
StripEbkp(frame) ==
    [columns |-> frame.columns,
     rows |-> [k \in 1..Len(frame.rows) |->
                  [frame.rows[k] EXCEPT !.ebkp = Strip(AsStr(frame.rows[k].ebkp))]]]

\* cost_data_df.loc[code]: the rows of the index label, in table order
Loc(frame, code) == SelectSeq(frame.rows, LAMBDA r : r.Code = code)

AmbiguousTruth ==
    Exc("ValueError",
        "The truth value of a Series is ambiguous. Use a.empty, a.bool(), a.item(), a.any() or a.all().",
        "", 0)

\* variant: the quantity bases exchanged (length for 'm2', area for 'm')
CostQuantity_swapped(reference, element) ==
    IF reference = "m2" THEN element.Length ELSE element.Area

\* process_data, lines 105-108: the quantity the unit selects
CostQuantity(reference, element) ==
    IF reference = "m2" THEN element.Area ELSE element.Length

\* process_data, lines 102-114: the exception the inner try block raises for
\* one element, NoExc when it reaches the computation
CostError(element, frame) ==
    LET found == Loc(frame, element.ebkp)
    IN  IF Len(found) = 0 THEN Exc("KeyError", "", element.ebkp, 0)
        ELSE IF Len(found) > 1 THEN AmbiguousTruth
        ELSE IF found[1].reference \notin {"m2", "m"}
             THEN Exc("ValueError", "Unknown unit type", AsStr(found[1].reference), 0)
        ELSE LET quantity == CostQuantity(found[1].reference, element)
             IN  IF quantity.tag # "num" THEN Exc("ValueError", "Invalid quantity", "nan", 0)
                 ELSE IF quantity.v <= 0 THEN Exc("ValueError", "Invalid quantity", "", quantity.v)
                 ELSE NoExc

\* round(quantity * rate, 2), in hundredths; a missing rate gives nan
TotalCost(quantity, rate) ==
    IF rate.tag = "num" THEN Num(RoundHalfEven(quantity.v * rate.v, 100)) ELSE NoneV

\* process_data, lines 120-132: the success component
CostSuccessComponent(element, frame) ==
    LET cost_row == Loc(frame, element.ebkp)[1]
        quantity == CostQuantity(cost_row.reference, element)
    IN  [guid |-> element.GUID,
         material |-> "Cost Calculation",
         ebkp_h |-> element.ebkp,
         total_cost |-> TotalCost(quantity, cost_row.Kennwert),
         unit_cost |-> cost_row.Kennwert,
         unit |-> cost_row.reference,
         failed |-> FALSE]

\* process_data, lines 146-156: the failed component
CostFailedComponent(element, e) ==
    [guid |-> element.GUID, material |-> "Cost Calculation", ebkp_h |-> element.ebkp,
     failed |-> TRUE, error |-> ErrText(e)]

\* process_data, lines 100-156: the component of one pass of the element loop
CostComponent(element, frame) ==
    LET e == CostError(element, frame)
    IN  IF e = NoExc THEN CostSuccessComponent(element, frame)
        ELSE CostFailedComponent(element, e)

\* process_data, lines 120-132 and 146-156: the element result
CostElementResult(element, component) ==
    [guid |-> element.GUID, components |-> <<component>>, shared_guid |-> FALSE]

\* process_data, lines 136-143: the row log_processing_error inserts
CostErrorRow(project_id, element, e) ==
    [project_id |-> project_id, element_id |-> element.GUID, material_name |-> NoKey,
     error_type |-> e.type, error_message |-> ErrText(e)]

\* --------------------------------------------------- run_processors.main
RECURSIVE CombineInto(_, _)
\* combine_results, lines 20-30: the dict filled item by item (insertion order)
CombineInto(combined, items) ==
    IF items = <<>> THEN combined
    ELSE LET item == Head(items)
             at == {k \in 1..Len(combined) : combined[k].guid = item.guid}
         IN  IF at = {}
             THEN CombineInto(Append(combined, item), Tail(items))
             ELSE LET k == CHOOSE j \in at : TRUE
                  IN  CombineInto(
                          [combined EXCEPT
                              ![k].components = @ \o item.components,
                              ![k].shared_guid = @ \/ item.shared_guid],
                          Tail(items))

\* combine_results(lca_results, cost_results)
combine_results(lca_res, cost_res) == CombineInto(<<>>, lca_res \o cost_res)

\* ------------------------------------------- reference data administration
\* a raw value of the CSV column 'Rohdichte/ Flaechenmasse': a number, a text
\* of the form '<a> - <b>', any other text, or an empty cell
RawNumber(a) == [kind |-> "number", a |-> a, b |-> 0]
RawRange(a, b) == [kind |-> "range", a |-> a, b |-> b]
RawText == [kind |-> "text", a |-> 0, b |-> 0]
RawAbsent == [kind |-> "absent", a |-> 0, b |-> 0]

\* pd.to_numeric(column, errors='coerce'): what does not parse as one number
\* becomes NaN
to_numeric(raw) == IF raw.kind = "number" THEN Num(raw.a) ELSE NoneV

\* Series.fillna(0)
fillna(val) == IF val.tag = "num" THEN val ELSE Num(0)

\* import_kbob_data, lines 225-230: the density stored for a raw value
ImportedDensity(raw) == fillna(to_numeric(raw))

\* import_kbob_data, lines 219-227 and 240-251: the rows inserted for a file
ImportedRows(csv, version) ==
    {[uuid |-> csv[k].uuid, version |-> version, name |-> csv[k].name,
      indicator_co2eq |-> csv[k].co2eq, indicator_penre |-> csv[k].penre,
      indicator_ubp |-> csv[k].ubp, density |-> ImportedDensity(csv[k].density)] :
        k \in 1..Len(csv)}

\* date.today() of the imports and of the fix script, after the stored dates
Today == 3

\* UPDATE kbob_versions SET is_active = false
Deactivated(versions) == {[r EXCEPT !.is_active = FALSE] : r \in versions}

\* UPDATE kbob_versions SET is_active = true WHERE version = ?
Activated(versions, version) ==
    {[r EXCEPT !.is_active = (r.is_active \/ r.version = version)] : r \in versions}

\* the versions in ascending order of Python's string comparison
VersionOrder == <<"v0", "v1", "v2">>
\* max(versions)
MaxVersion(vs) ==
    VersionOrder[CHOOSE k \in 1..Len(VersionOrder) :
        /\ VersionOrder[k] \in vs
        /\ \A j \in 1..Len(VersionOrder) : VersionOrder[j] \in vs => j <= k]

\* ----------------------------------------------------------- test inputs
\* reference data of the runs
KbobRows ==
    {[uuid |-> "K1", version |-> "v1", name |-> "Hochbaubeton",
      indicator_co2eq |-> 10, indicator_penre |-> 25, indicator_ubp |-> 90,
      density |-> Num(2400)],
     [uuid |-> "K2", version |-> "v1", name |-> "Kies",
      indicator_co2eq |-> 1, indicator_penre |-> 3, indicator_ubp |-> 7,
      density |-> Num(2000)],
     [uuid |-> "K9", version |-> "v0", name |-> "Holz alt",
      indicator_co2eq |-> 5, indicator_penre |-> 5, indicator_ubp |-> 5,
      density |-> Num(0)]}

LifeRows ==
    {[ebkp_code |-> "B", description |-> "Vorbereitung", years |-> 50],
     [ebkp_code |-> "C", description |-> "Tragwerk", years |-> 50],
     [ebkp_code |-> "C", description |-> "Decke", years |-> 30],
     [ebkp_code |-> "D", description |-> "Technik", years |-> 0]}

MappingItem(m, k) == [ifc_material |-> m, kbob_id |-> k]
MappingLists ==
    {<<MappingItem("Concrete", "K1"), MappingItem("Holz", "K9"),
       MappingItem("Lehm", ""), MappingItem("Kies", "K2")>>,
     <<MappingItem("Concrete", "K9"), MappingItem("Concrete", "K1"),
       MappingItem("Lehm", NoKey), MappingItem("Kies", "K2"), MappingItem("Kies", "")>>}

MaterialNames == {"Concrete", "Kies", "Holz", "Lehm", "Stroh"}
Volumes == {AbsentV, NoneV, Num(-100), Num(0), Num(2), Num(1000)}
Fractions == {AbsentV, Num(0), Num(5), Num(10)}
Densities == {AbsentV, NoneV, Num(0), Num(373), Num(2300)}
AllMaterialData == [volume : Volumes, fraction : Fractions, density : Densities]
EbkpCodes == {NoKey, "", " ", "B", "C", " C ", "D", "Z"}

MdOk == [volume |-> Num(1000), fraction |-> Num(10), density |-> Num(2300)]
MdHalf == [volume |-> Num(1000), fraction |-> Num(5), density |-> Num(2300)]
MdSmall == [volume |-> Num(2), fraction |-> Num(10), density |-> Num(373)]
MdInvalid == [volume |-> Num(-100), fraction |-> Num(10), density |-> AbsentV]
MdNoDensity == [volume |-> Num(1000), fraction |-> AbsentV, density |-> AbsentV]

Element(id, guid, ebkp, materials, material_volumes) ==
    [id |-> id, guid |-> guid, ebkp |-> ebkp, materials |-> materials,
     material_volumes |-> material_volumes]

\* one element, one material, every shape of per-material record
SinglePairElements ==
    {Element("E1", NoKey, "C", <<m>>, [x \in {m} |-> d]) :
        m \in MaterialNames, d \in AllMaterialData}
    \cup {Element("E1", NoKey, c, <<m>>, [x \in {m} |-> d]) :
        c \in EbkpCodes, m \in {"Concrete", "Kies"}, d \in {MdOk, MdHalf, MdSmall}}

\* one element, up to MaxMats materials
SeqsUpTo(S, n) == UNION {[1..k -> S] : k \in 0..n}
Range(f) == {f[k] : k \in DOMAIN f}
MultiMaterialElements ==
    {Element("E1", NoKey, "C", ms, mv) :
        ms \in SeqsUpTo({"Concrete", "Holz", "Stroh"}, MaxMats),
        mv \in UNION {[D -> {MdOk, MdInvalid, MdNoDensity}] : D \in SUBSET {"Concrete", "Holz", "Stroh"}}}

\* elements of the batches of several elements
IdVariants == {<<"E1", NoKey>>, <<"E2", NoKey>>, <<NoKey, "E1">>, <<NoKey, NoKey>>}
BatchElements ==
    {Element(iv[1], iv[2], "B", mm[1], mm[2]) :
        iv \in IdVariants,
        mm \in {<<<<"Concrete">>, [x \in {"Concrete"} |-> MdOk]>>,
                <<<<"Stroh">>, [x \in {"Stroh"} |-> MdInvalid]>>,
                <<<<"Stroh", "Concrete">>, [x \in {"Stroh", "Concrete"} |-> MdOk]>>}}

Batches ==
    {<<e>> : e \in SinglePairElements \cup MultiMaterialElements}
    \cup (SeqsUpTo(BatchElements, MaxElems) \ {<<>>})

VersionsActive == {[version |-> "v1", is_active |-> TRUE, release_date |-> 2],
                   [version |-> "v0", is_active |-> FALSE, release_date |-> 1]}
VersionsInactive == {[version |-> "v1", is_active |-> FALSE, release_date |-> 2]}

\* the two layouts of the element file, and one that lacks a column
NativeColumns == {"GUID", "Volume", "Length", "Area", "KBOB UUID-Nummer", "eBKP-H"}
DbColumns == {"id", "volume_net", "length", "area_net", "ebkp"}
NoAreaColumns == NativeColumns \ {"Area"}
DbNoAreaColumns == DbColumns \ {"area_net"}

\* a row of the element file: the values of its identifier, area, length and
\* classification code columns under either layout
CostElement(guid, ebkp, area, length) ==
    [GUID |-> guid, ebkp |-> ebkp, Area |-> area, Length |-> length]

CostRow(code, rate, unit) == [Code |-> code, Kennwert |-> rate, reference |-> unit]
CostRows ==
    <<CostRow(" C ", Num(12000), "m2"),
      CostRow("M", Num(8000), "m"),
      CostRow("X", Num(5000), "m3"),
      CostRow("U", Num(1000), NoKey),
      CostRow("D", Num(10000), "m2"),
      CostRow("D", Num(10000), "m"),
      CostRow("K", Num(33), "m2"),
      CostRow("R", NoneV, "m"),
      CostRow("Q", Num(12000), "M2")>>

CostTables ==
    {[columns |-> {"Code", "Kennwert", "reference"}, rows |-> CostRows],
     [columns |-> {"Code", "Kennwert"}, rows |-> CostRows],
     [columns |-> {"Kennwert", "reference"}, rows |-> CostRows]}

CostCodes == {"C", " C ", "M", "X", "U", "D", "K", "R", "Q", "Z", NoKey}
Areas == {Num(5000), Num(5), Num(0), Num(-100), NoneV}
Lengths == {Num(1000), Num(0), NoneV}

SingleCostElements ==
    {CostElement("E1", c, a, l) : c \in CostCodes, a \in Areas, l \in Lengths}

CostBatchElements ==
    {CostElement("E1", "C", Num(5000), Num(1000)),
     CostElement("E2", "M", Num(5000), Num(1000)),
     CostElement("E2", "Z", Num(5000), Num(1000)),
     CostElement("E1", "X", Num(5000), Num(1000)),
     CostElement("E2", "C", Num(0), Num(1000))}

CostBatches ==
    {[columns |-> NativeColumns, rows |-> <<e>>] : e \in SingleCostElements}
    \cup {[columns |-> cols, rows |-> rows] :
            cols \in {NativeColumns, DbColumns, NoAreaColumns, DbNoAreaColumns},
            rows \in SeqsUpTo(CostBatchElements, MaxElems)}

\* ----------------------------------------------------------------- Init
LcaIdle ==
    /\ lca_pc = "new"
    /\ lca_exc = NoExc
    /\ lca_element_data = <<>>
    /\ lca_material_mappings = <<>>
    /\ lca_results = <<>>
    /\ active_version = NoVersion
    /\ material_mappings = <<>>
    /\ results = <<>>
    /\ total_elements = 0
    /\ processed_elements = 0
    /\ failed_elements = 0
    /\ elem_idx = 0
    /\ mat_idx = 0
    /\ element_result = <<>>

\* the rows table ifc_elements holds before the runs
IfcElementsBefore ==
    [id \in {"E1"} |->
        IfcElementRow(SharedProject, "C", Num(100), Num(120), Num(5000), Num(5500),
                      Num(1000), Num(30), Num(250))]

\* each engine under a project of its own
OwnProjects ==
    /\ lca_project_id = LcaProject
    /\ cost_project_id = CostProject

DbInit ==
    /\ kbob_materials = KbobRows
    /\ life_expectancy = LifeRows
    /\ projects = [p \in ProjectIds |-> [status |-> "none", kbob_version |-> NoVersion]]
    /\ processing_errors = <<>>
    /\ processing_history = <<>>
    /\ processing_results = <<>>
    /\ ifc_elements = IfcElementsBefore

MainIdle ==
    /\ main_pc = "running"
    /\ combined_results = <<>>

\* an empty bucket
ArchiveIdle ==
    /\ minio_objects = {}
    /\ minio_clock = 1

\* no administration call made yet
AdminIdle == admin_exc = NoExc

\* nothing stored for the pipeline
StoredIdle ==
    /\ ifc_element_materials = <<>>
    /\ material_mappings_table = <<>>
    /\ cost_reference = <<>>

\* a message of the input topic: its offset, whether it carries an error, and
\* its payload
Message(offset, error, value) == [offset |-> offset, error |-> error, value |-> value]
NoMessage == Message(0, FALSE, "")

\* no orchestrator running
OrchIdle ==
    /\ orch_pc = "off"
    /\ input_topic = <<>>
    /\ orch_msg = NoMessage
    /\ output_topic = <<>>
    /\ orch_trace = <<>>

CostIdle ==
    /\ cost_pc = "new"
    /\ cost_exc = NoExc
    /\ cost_element_data = EmptyFrame
    /\ cost_data = EmptyFrame
    /\ cost_self_results = <<>>
    /\ cost_results = <<>>
    /\ cost_total_elements = 0
    /\ cost_processed_elements = 0
    /\ cost_failed_elements = 0
    /\ cost_idx = 0

Init ==
    /\ DbInit
    /\ LcaIdle
    /\ CostIdle
    /\ MainIdle
    /\ ArchiveIdle
    /\ AdminIdle
    /\ StoredIdle
    /\ OrchIdle
    /\ OwnProjects
    /\ cost_input_file = EmptyFrame
    /\ cost_data_file = EmptyFrame
    /\ \/ /\ kbob_versions = VersionsActive
          /\ input_file \in Batches
          /\ mappings_file \in MappingLists
       \/ /\ kbob_versions = VersionsInactive
          /\ input_file = <<Element("E1", NoKey, "C", <<"Concrete">>, [x \in {"Concrete"} |-> MdOk])>>
          /\ mappings_file \in MappingLists

\* ---------------------------------------------- batches loaded from storage
\* input_file_path=None, material_mappings_file=None: no file, the batch is
\* loaded from the database
NoPath == <<[path |-> "None"]>>

\* a row of table ifc_element_materials
MaterialRow(element_id, material_name, fraction, volume, width, density) ==
    [element_id |-> element_id, material_name |-> material_name,
     fraction |-> fraction, volume |-> volume, width |-> width, density |-> density]

\* a row of table material_mappings (the columns get_material_mappings reads)
MappingRow(ifc_material, kbob_id) == [ifc_material |-> ifc_material, kbob_id |-> kbob_id]

\* the order of the keys of a dict of materials
MaterialOrder == <<"Concrete", "Kies", "Holz", "Lehm", "Stroh">>
DictKeys(d) == SelectSeq(MaterialOrder, LAMBDA m : m \in DOMAIN d)

\* element.get('id') or element.get('guid')
StoreId(element) == IF Truthy(element.id) THEN element.id ELSE element.guid

\* quantities.get(...).get(...) of an extracted element, None when missing
Quantity(element, field) == IF field \in DOMAIN element THEN element[field] ELSE NoneV

\* store_ifc_elements, lines 409-470, first transaction, on the elements of
\* an extraction: a row whose id is in the table is updated (its project_id
\* kept), any other is inserted
RECURSIVE store_extracted_elements(_, _, _)
store_extracted_elements(table, elements, project_id) ==
    IF elements = <<>> THEN table
    ELSE LET element == Head(elements)
             element_id == StoreId(element)
             ebkp == IF Truthy(element.ebkp) THEN element.ebkp ELSE NoKey
             row(p) == IfcElementRow(p, ebkp, Quantity(element, "volume_net"), Quantity(element, "volume_gross"), Quantity(element, "area_net"), Quantity(element, "area_gross"), Quantity(element, "length"), Quantity(element, "width"), Quantity(element, "height"))
             stored == IF ~Truthy(element_id) THEN table
                       ELSE [id \in DOMAIN table \cup {element_id} |->
                                IF id # element_id THEN table[id]
                                ELSE IF id \in DOMAIN table THEN row(table[id].project_id)
                                ELSE row(project_id)]
         IN  store_extracted_elements(stored, Tail(elements), project_id)

\* INSERT INTO ifc_element_materials ... ON CONFLICT (element_id,
\* material_name) DO UPDATE
Upsert(table, row) ==
    LET same(k) == /\ table[k].element_id = row.element_id
                   /\ table[k].material_name = row.material_name
    IN  IF \E k \in 1..Len(table) : same(k)
        THEN [k \in 1..Len(table) |-> IF same(k) THEN row ELSE table[k]]
        ELSE Append(table, row)

RECURSIVE UpsertAll(_, _)
UpsertAll(table, rows) ==
    IF rows = <<>> THEN table ELSE UpsertAll(Upsert(table, Head(rows)), Tail(rows))

\* store_ifc_elements, lines 495-511: the rows of one element
ElementMaterialRows(element) ==
    LET names == DictKeys(element.material_volumes)
    IN  [k \in 1..Len(names) |->
            LET material_data == element.material_volumes[names[k]]
            IN  MaterialRow(StoreId(element), names[k],
                            DictGet(material_data.fraction, NoneV),
                            DictGet(material_data.volume, NoneV),
                            NoneV,
                            DictGet(material_data.density, Num(0)))]

\* store_ifc_elements, lines 490-520, second transaction
RECURSIVE store_element_materials(_, _)
store_element_materials(table, elements) ==
    IF elements = <<>> THEN table
    ELSE LET element == Head(elements)
             stored == IF ~Truthy(StoreId(element)) THEN table
                       ELSE UpsertAll(table, ElementMaterialRows(element))
         IN  store_element_materials(stored, Tail(elements))

\* DatabaseManager.get_ifc_elements(project_id): the ids of the rows
get_ifc_elements(table, project_id) ==
    SelectSeq(IdOrder, LAMBDA id : id \in DOMAIN table /\ table[id].project_id = project_id)

\* DatabaseManager.get_ifc_element_materials(element_id): the material names
\* and, per material, a dict that holds the volume only
get_ifc_element_materials(table, element_id) ==
    LET rows == SelectSeq(table, LAMBDA r : r.element_id = element_id)
        names == {rows[k].material_name : k \in 1..Len(rows)}
        rowOf(m) == CHOOSE k \in 1..Len(rows) : rows[k].material_name = m
    IN  [materials |-> [k \in 1..Len(rows) |-> rows[k].material_name],
         material_volumes |-> [m \in names |->
             [volume |-> rows[rowOf(m)].volume, fraction |-> AbsentV, density |-> AbsentV]]]

\* load_data, lines 41-49: the rows of the project, each with the materials
\* fetched for it; a row has no "guid" and no "properties" entry
LoadedElements(elements_table, materials_table, project_id) ==
    LET ids == get_ifc_elements(elements_table, project_id)
    IN  [k \in 1..Len(ids) |->
            LET fetched == get_ifc_element_materials(materials_table, ids[k])
            IN  Element(ids[k], NoKey, NoKey, fetched.materials, fetched.material_volumes)]

\* an entry of a dict; iterating over the dict yields the keys
DictEntry(key, value) == [key |-> key, value |-> value]
IsDictEntry(item) == "key" \in DOMAIN item

\* DatabaseManager.get_material_mappings: a dict {ifc_material: kbob_id}, a
\* later row overwriting an earlier one
get_material_mappings(rows) ==
    LET keys == SelectSeq(MaterialOrder, LAMBDA m : \E k \in 1..Len(rows) : rows[k].ifc_material = m)
        last(m) == CHOOSE k \in 1..Len(rows) :
                      /\ rows[k].ifc_material = m
                      /\ \A o \in 1..Len(rows) : rows[o].ifc_material = m => o <= k
    IN  [k \in 1..Len(keys) |-> DictEntry(keys[k], rows[last(keys[k])].kbob_id)]

\* ------------------------------------------------------------- LCA run
SetStatus(project_id, status) ==
    [projects EXCEPT ![project_id].status = status]

\* LCAProcessor.load_data (batch and mappings from files or from storage),
\* with validate_data
LCA_load_data ==
    /\ lca_pc = "new"
    /\ LET version == get_active_kbob_version(kbob_versions)
           elements == IF input_file = NoPath
                       THEN LoadedElements(ifc_elements, ifc_element_materials, lca_project_id)
                       ELSE input_file
           valid_elements == ValidElements(elements)
       IN  IF version = NoVersion
           THEN /\ lca_pc' = "raised"
                /\ lca_exc' = Exc("ValueError", "No active KBOB version found in database", "", 0)
                /\ UNCHANGED <<projects, lca_element_data, lca_material_mappings>>
           ELSE /\ projects' = [projects EXCEPT ![lca_project_id] =
                                   [status |-> "processing", kbob_version |-> version]]
                /\ lca_material_mappings' = IF mappings_file = NoPath
                                            THEN get_material_mappings(material_mappings_table)
                                            ELSE mappings_file
                /\ lca_element_data' = valid_elements
                /\ IF valid_elements = <<>>
                   THEN /\ lca_pc' = "raised"
                        /\ lca_exc' = Exc("ValueError", "No valid elements found after validation", "", 0)
                   ELSE /\ lca_pc' = "loaded"
                        /\ lca_exc' = NoExc
    /\ UNCHANGED <<kbob_versions, kbob_materials, life_expectancy, processing_errors,
                   processing_history, processing_results, ifc_elements>>
    /\ UNCHANGED <<lcaInputs, lca_results, lcaLocals>>
    /\ UNCHANGED <<costVars, mainVars, archiveVars, adminVars, storedVars, orchVars>>

\* process_data, lines 134-150: up to the element loop
LCA_process_begin ==
    /\ lca_pc = "loaded"
    /\ LET version == get_active_kbob_version(kbob_versions)
       IN  IF version = NoVersion
           THEN /\ lca_pc' = "raised"
                /\ lca_exc' = Exc("ValueError", "No active KBOB version found in database", "", 0)
                /\ projects' = SetStatus(lca_project_id, "failed")
                /\ UNCHANGED lcaLocals
           ELSE IF \E k \in 1..Len(lca_material_mappings) : IsDictEntry(lca_material_mappings[k])
           THEN \* lines 141-145 over a dict: an item is a key, a str, and
                \* item.get raises AttributeError, caught at line 258
                /\ lca_pc' = "raised"
                /\ lca_exc' = Exc("AttributeError", "'str' object has no attribute 'get'", "", 0)
                /\ projects' = SetStatus(lca_project_id, "failed")
                /\ UNCHANGED lcaLocals
           ELSE /\ lca_pc' = "element"
                /\ active_version' = version
                /\ material_mappings' = BuildMappings(lca_material_mappings)
                /\ results' = <<>>
                /\ total_elements' = Len(lca_element_data)
                /\ processed_elements' = 0
                /\ failed_elements' = 0
                /\ elem_idx' = 1
                /\ UNCHANGED <<projects, lca_exc, mat_idx, element_result>>
    /\ UNCHANGED <<kbob_versions, kbob_materials, life_expectancy, processing_errors,
                   processing_history, processing_results, ifc_elements>>
    /\ UNCHANGED <<lcaInputs, lca_element_data, lca_material_mappings, lca_results>>
    /\ UNCHANGED <<costVars, mainVars, archiveVars, adminVars, storedVars, orchVars>>

\* process_data, lines 152-162: head of the element loop
LCA_element_begin ==
    /\ lca_pc = "element"
    /\ elem_idx <= Len(lca_element_data)
    /\ LET element == lca_element_data[elem_idx]
       IN  IF element.id = NoKey
           THEN \* element["id"] raises KeyError, caught at line 258
                /\ lca_pc' = "raised"
                /\ lca_exc' = Exc("KeyError", "", "id", 0)
                /\ projects' = SetStatus(lca_project_id, "failed")
                /\ UNCHANGED <<failed_elements, elem_idx, mat_idx, element_result>>
           ELSE IF element.materials = <<>>
           THEN /\ failed_elements' = failed_elements + 1
                /\ elem_idx' = elem_idx + 1
                /\ UNCHANGED <<lca_pc, lca_exc, projects, mat_idx, element_result>>
           ELSE /\ lca_pc' = "material"
                /\ element_result' = <<>>
                /\ mat_idx' = 1
                /\ UNCHANGED <<lca_exc, projects, failed_elements, elem_idx>>
    /\ UNCHANGED <<kbob_versions, kbob_materials, life_expectancy, processing_errors,
                   processing_history, processing_results, ifc_elements>>
    /\ UNCHANGED <<lcaInputs, lca_element_data, lca_material_mappings, lca_results>>
    /\ UNCHANGED <<active_version, material_mappings, results, total_elements,
                   processed_elements>>
    /\ UNCHANGED <<costVars, mainVars, archiveVars, adminVars, storedVars, orchVars>>

\* variant of the material loop in which a failed pair ends the loop (break)
LCA_material_break ==
    /\ lca_pc = "material"
    /\ mat_idx <= Len(lca_element_data[elem_idx].materials)
    /\ LET element == lca_element_data[elem_idx]
           material_name == element.materials[mat_idx]
           e == PairError(element, material_name, material_mappings, active_version,
                          kbob_materials)
           component == ProcessMaterial(element, material_name, material_mappings,
                                        active_version, kbob_materials, life_expectancy)
       IN  /\ element_result' = Append(element_result, component)
           /\ IF component.failed
              THEN /\ processing_errors' = Append(processing_errors,
                           ErrorRow(lca_project_id, element, material_name, e))
                   /\ failed_elements' = failed_elements + 1
                   /\ mat_idx' = Len(element.materials) + 1
              ELSE /\ UNCHANGED <<processing_errors, failed_elements>>
                   /\ mat_idx' = mat_idx + 1
    /\ UNCHANGED <<kbob_versions, kbob_materials, life_expectancy, projects,
                   processing_history, processing_results, ifc_elements>>
    /\ UNCHANGED <<lcaInputs, lcaSelf>>
    /\ UNCHANGED <<active_version, material_mappings, results, total_elements,
                   processed_elements, elem_idx>>
    /\ UNCHANGED <<costVars, mainVars, archiveVars, adminVars, storedVars, orchVars>>

\* process_data, lines 164-232: one pass of the material loop
LCA_material ==
    /\ lca_pc = "material"
    /\ mat_idx <= Len(lca_element_data[elem_idx].materials)
    /\ LET element == lca_element_data[elem_idx]
           material_name == element.materials[mat_idx]
           e == PairError(element, material_name, material_mappings, active_version,
                          kbob_materials)
           component == ProcessMaterial(element, material_name, material_mappings,
                                        active_version, kbob_materials, life_expectancy)
       IN  /\ element_result' = Append(element_result, component)
           /\ IF component.failed
              THEN /\ processing_errors' = Append(processing_errors,
                           ErrorRow(lca_project_id, element, material_name, e))
                   /\ failed_elements' = failed_elements + 1
              ELSE UNCHANGED <<processing_errors, failed_elements>>
    /\ mat_idx' = mat_idx + 1
    /\ UNCHANGED <<kbob_versions, kbob_materials, life_expectancy, projects,
                   processing_history, processing_results, ifc_elements>>
    /\ UNCHANGED <<lcaInputs, lcaSelf>>
    /\ UNCHANGED <<active_version, material_mappings, results, total_elements,
                   processed_elements, elem_idx>>
    /\ UNCHANGED <<costVars, mainVars, archiveVars, adminVars, storedVars, orchVars>>

\* process_data, lines 234-238: end of the element loop body
LCA_element_end ==
    /\ lca_pc = "material"
    /\ mat_idx > Len(lca_element_data[elem_idx].materials)
    /\ results' = IF element_result # <<>>
                  THEN Append(results, ElementResult(lca_element_data[elem_idx], element_result))
                  ELSE results
    /\ processed_elements' = processed_elements + 1
    /\ elem_idx' = elem_idx + 1
    /\ lca_pc' = "element"
    /\ UNCHANGED dbVars
    /\ UNCHANGED <<lcaInputs, lca_exc, lca_element_data, lca_material_mappings, lca_results>>
    /\ UNCHANGED <<active_version, material_mappings, total_elements, failed_elements,
                   mat_idx, element_result>>
    /\ UNCHANGED <<costVars, mainVars, archiveVars, adminVars, storedVars, orchVars>>

\* variant of the end of process_data that reports failed when an element failed
LCA_process_end_failed_on_errors ==
    /\ lca_pc = "element"
    /\ elem_idx > Len(lca_element_data)
    /\ lca_results' = results
    /\ processing_history' = Append(processing_history,
           [project_id |-> lca_project_id,
            total_elements |-> total_elements,
            processed_elements |-> processed_elements,
            failed_elements |-> failed_elements,
            kbob_version |-> active_version])
    /\ projects' = SetStatus(lca_project_id,
                             IF failed_elements = 0 THEN "completed" ELSE "failed")
    /\ lca_pc' = "processed"
    /\ UNCHANGED <<kbob_versions, kbob_materials, life_expectancy, processing_errors,
                   processing_results, ifc_elements>>
    /\ UNCHANGED <<lcaInputs, lca_exc, lca_element_data, lca_material_mappings, lcaLocals>>
    /\ UNCHANGED <<costVars, mainVars, archiveVars, adminVars, storedVars, orchVars>>

\* process_data, lines 240-256: after the element loop
LCA_process_end ==
    /\ lca_pc = "element"
    /\ elem_idx > Len(lca_element_data)
    /\ lca_results' = results
    /\ processing_history' = Append(processing_history,
           [project_id |-> lca_project_id,
            total_elements |-> total_elements,
            processed_elements |-> processed_elements,
            failed_elements |-> failed_elements,
            kbob_version |-> active_version])
    /\ projects' = SetStatus(lca_project_id, "completed")
    /\ lca_pc' = "processed"
    /\ UNCHANGED <<kbob_versions, kbob_materials, life_expectancy, processing_errors,
                   processing_results, ifc_elements>>
    /\ UNCHANGED <<lcaInputs, lca_exc, lca_element_data, lca_material_mappings, lcaLocals>>
    /\ UNCHANGED <<costVars, mainVars, archiveVars, adminVars, storedVars, orchVars>>

\* LCAProcessor.save_results with DatabaseManager.save_project_results: one
\* transaction, rolled back and only logged when an INSERT is refused
LCA_save_results ==
    /\ lca_pc = "processed"
    /\ LET version == get_active_kbob_version(kbob_versions)
       IN  processing_results' =
               IF InsertsAccepted(lca_results, version, DOMAIN ifc_elements)
               THEN processing_results \o ResultRows(lca_project_id, lca_results, version)
               ELSE processing_results
    /\ lca_pc' = "done"
    /\ UNCHANGED <<kbob_versions, kbob_materials, life_expectancy, projects,
                   processing_errors, processing_history, ifc_elements>>
    /\ UNCHANGED <<lcaInputs, lca_exc, lca_element_data, lca_material_mappings, lca_results,
                   lcaLocals>>
    /\ UNCHANGED <<costVars, mainVars, archiveVars, adminVars, storedVars, orchVars>>

LCA_run ==
    \/ LCA_load_data
    \/ LCA_process_begin
    \/ LCA_element_begin
    \/ LCA_material
    \/ LCA_element_end
    \/ LCA_process_end
    \/ LCA_save_results

Next == LCA_run

Spec == Init /\ [][Next]_vars

\* ------------------------------------- extraction, then an LCA run from storage
\* the ids uuid4 hands out, in order
FreshIds == <<"U1", "U2", "U3", "U4">>
IdsUsed(table) == Cardinality({k \in 1..Len(FreshIds) : FreshIds[k] \in DOMAIN table})

\* store_data, lines 117-119: every element given a new id
AssignIds(elements, table) ==
    [k \in 1..Len(elements) |-> [elements[k] EXCEPT !.id = FreshIds[IdsUsed(table) + k]]]

\* an element of the extraction's response, with its quantities
Extracted(ebkp, materials, material_volumes, area_net, length) ==
    Element(NoKey, NoKey, ebkp, materials, material_volumes)
        @@ [area_net |-> area_net, length |-> length]

ExtractedElementSet ==
    {Extracted("C", <<"Concrete">>, [x \in {"Concrete"} |-> MdOk], Num(5000), Num(1000)),
     Extracted("B", <<"Concrete", "Holz">>, [x \in {"Concrete", "Holz"} |-> IF x = "Concrete" THEN MdHalf ELSE MdNoDensity], Num(5), NoneV),
     Extracted("M", <<"Kies">>, [x \in {"Kies"} |-> MdSmall], NoneV, Num(1000)),
     Extracted(NoKey, <<>>, <<>>, Num(5000), Num(1000))}

\* the responses of the extraction service: one or two elements
ExtractedBatches ==
    {<<e>> : e \in ExtractedElementSet}
    \cup {<<e, f>> : e \in ExtractedElementSet, f \in ExtractedElementSet}

\* IFCExtractBuildingElementsService.store_data: the project upserted, the
\* elements and their materials stored
store_data(elements, project_id) ==
    LET stored == AssignIds(elements, ifc_elements)
    IN  /\ projects' = [projects EXCEPT ![project_id] =
                           [status |-> "active", kbob_version |-> "N/A"]]
        /\ ifc_elements' = store_extracted_elements(ifc_elements, stored, project_id)
        /\ ifc_element_materials' = store_element_materials(ifc_element_materials, stored)

\* an extraction stored for the project before its LCA run starts
IFC_store_data ==
    /\ lca_pc = "new"
    /\ IdsUsed(ifc_elements) = 0
    /\ \E elements \in ExtractedBatches : store_data(elements, lca_project_id)
    /\ UNCHANGED <<kbob_versions, kbob_materials, life_expectancy, processing_errors,
                   processing_history, processing_results>>
    /\ UNCHANGED <<material_mappings_table, cost_reference>>
    /\ UNCHANGED <<lcaVars, costVars, mainVars, archiveVars, adminVars, orchVars>>

\* the contents of table material_mappings: empty, or loaded from a list
StoredMappingTables ==
    {<<>>,
     <<MappingRow("Concrete", "K1"), MappingRow("Kies", "K2")>>,
     <<MappingRow("Concrete", "K9"), MappingRow("Concrete", "K1"), MappingRow("Lehm", NoKey)>>}

InitStored ==
    /\ DbInit
    /\ LcaIdle
    /\ CostIdle
    /\ MainIdle
    /\ ArchiveIdle
    /\ AdminIdle
    /\ OrchIdle
    /\ ifc_element_materials = <<>>
    /\ material_mappings_table \in StoredMappingTables
    /\ cost_reference = <<>>
    /\ lca_project_id = SharedProject
    /\ cost_project_id = SharedProject
    /\ kbob_versions = VersionsActive
    /\ input_file = NoPath
    /\ mappings_file = NoPath
    /\ cost_input_file = EmptyFrame
    /\ cost_data_file = EmptyFrame

NextStored ==
    \/ IFC_store_data
    \/ LCA_run

SpecStored == InitStored /\ [][NextStored]_vars

\* ------------------------------------------------------------ cost run
\* CostProcessor.load_data (both tables read from files or from storage),
\* with store_ifc_elements and validate_data
Cost_load_data ==
    /\ cost_pc = "new"
    /\ projects' = [projects EXCEPT ![cost_project_id] =
                       [status |-> "processing", kbob_version |-> "N/A"]]
    /\ LET input == IF cost_input_file = NoFramePath
                    THEN ElementFrame(ifc_elements, cost_project_id)
                    ELSE cost_input_file
           data == IF cost_data_file = NoFramePath
                   THEN db_get_cost_data(cost_reference)
                   ELSE cost_data_file
           element_data == [columns |-> LoadedColumns(input.columns),
                            rows |-> input.rows]
           e == CostValidateError(element_data.columns, data.columns)
       IN  /\ cost_element_data' = element_data
           /\ IF cost_data_file = NoFramePath /\ data.rows = <<>>
              THEN /\ cost_pc' = "raised"
                   /\ cost_exc' = Exc("ValueError", "No cost data found in the database for project", cost_project_id, 0)
                   /\ cost_data' = EmptyFrame
                   /\ UNCHANGED ifc_elements
              ELSE IF element_data.rows = <<>>
              THEN /\ cost_pc' = "raised"
                   /\ cost_exc' = Exc("ValueError", "No elements found in input data", "", 0)
                   /\ cost_data' = data
                   /\ UNCHANGED ifc_elements
              ELSE /\ ifc_elements' = store_ifc_elements(ifc_elements, input, cost_project_id)
                   /\ IF e # NoExc
                      THEN /\ cost_pc' = "raised"
                           /\ cost_exc' = e
                           /\ cost_data' = data
                      ELSE /\ cost_pc' = "loaded"
                           /\ cost_exc' = NoExc
                           /\ cost_data' = IndexByCode(data)
    /\ UNCHANGED <<kbob_versions, kbob_materials, life_expectancy, processing_errors,
                   processing_history, processing_results>>
    /\ UNCHANGED <<costInputs, cost_self_results, costLocals>>
    /\ UNCHANGED <<lcaVars, mainVars, archiveVars, adminVars, storedVars, orchVars>>

\* process_data, lines 85-96: up to the element loop
Cost_process_begin ==
    /\ cost_pc = "loaded"
    /\ IF ~({"Kennwert", "reference"} \subseteq cost_data.columns)
       THEN \* self.data[["Kennwert", "reference"]] raises KeyError, caught at line 180
            /\ cost_pc' = "raised"
            /\ cost_exc' = Exc("KeyError", "not in index",
                               IF "Kennwert" \in cost_data.columns
                               THEN "['reference']"
                               ELSE IF "reference" \in cost_data.columns
                               THEN "['Kennwert']"
                               ELSE "['Kennwert', 'reference']", 0)
            /\ projects' = SetStatus(cost_project_id, "failed")
            /\ UNCHANGED <<cost_element_data, costLocals>>
       ELSE /\ cost_pc' = "element"
            /\ cost_element_data' = StripEbkp(cost_element_data)
            /\ cost_total_elements' = Len(cost_element_data.rows)
            /\ cost_processed_elements' = 0
            /\ cost_failed_elements' = 0
            /\ cost_results' = <<>>
            /\ cost_idx' = 1
            /\ UNCHANGED <<cost_exc, projects>>
    /\ UNCHANGED <<kbob_versions, kbob_materials, life_expectancy, processing_errors,
                   processing_history, processing_results, ifc_elements>>
    /\ UNCHANGED <<costInputs, cost_data, cost_self_results>>
    /\ UNCHANGED <<lcaVars, mainVars, archiveVars, adminVars, storedVars, orchVars>>

\* variant of the element loop in which a failed element ends the loop (break)
Cost_element_break ==
    /\ cost_pc = "element"
    /\ cost_idx <= Len(cost_element_data.rows)
    /\ LET element == cost_element_data.rows[cost_idx]
           e == CostError(element, cost_data)
           component == CostComponent(element, cost_data)
       IN  /\ cost_results' = Append(cost_results, CostElementResult(element, component))
           /\ IF component.failed
              THEN /\ processing_errors' = Append(processing_errors,
                           CostErrorRow(cost_project_id, element, e))
                   /\ cost_failed_elements' = cost_failed_elements + 1
                   /\ cost_idx' = Len(cost_element_data.rows) + 1
              ELSE /\ UNCHANGED <<processing_errors, cost_failed_elements>>
                   /\ cost_idx' = cost_idx + 1
    /\ cost_processed_elements' = cost_processed_elements + 1
    /\ UNCHANGED <<kbob_versions, kbob_materials, life_expectancy, projects,
                   processing_history, processing_results, ifc_elements>>
    /\ UNCHANGED <<costInputs, costSelf, cost_total_elements>>
    /\ UNCHANGED <<lcaVars, mainVars, archiveVars, adminVars, storedVars, orchVars>>

\* process_data, lines 99-159: one pass of the element loop
Cost_element ==
    /\ cost_pc = "element"
    /\ cost_idx <= Len(cost_element_data.rows)
    /\ LET element == cost_element_data.rows[cost_idx]
           e == CostError(element, cost_data)
           component == CostComponent(element, cost_data)
       IN  /\ cost_results' = Append(cost_results, CostElementResult(element, component))
           /\ IF component.failed
              THEN /\ processing_errors' = Append(processing_errors,
                           CostErrorRow(cost_project_id, element, e))
                   /\ cost_failed_elements' = cost_failed_elements + 1
              ELSE UNCHANGED <<processing_errors, cost_failed_elements>>
    /\ cost_processed_elements' = cost_processed_elements + 1
    /\ cost_idx' = cost_idx + 1
    /\ UNCHANGED <<kbob_versions, kbob_materials, life_expectancy, projects,
                   processing_history, processing_results, ifc_elements>>
    /\ UNCHANGED <<costInputs, costSelf, cost_total_elements>>
    /\ UNCHANGED <<lcaVars, mainVars, archiveVars, adminVars, storedVars, orchVars>>

\* process_data, lines 161-178: after the element loop
Cost_process_end ==
    /\ cost_pc = "element"
    /\ cost_idx > Len(cost_element_data.rows)
    /\ cost_self_results' = cost_results
    /\ processing_history' = Append(processing_history,
           [project_id |-> cost_project_id,
            total_elements |-> cost_total_elements,
            processed_elements |-> cost_processed_elements,
            failed_elements |-> cost_failed_elements,
            kbob_version |-> "N/A"])
    /\ projects' = SetStatus(cost_project_id,
                             IF cost_failed_elements = 0 THEN "completed" ELSE "failed")
    /\ cost_pc' = "processed"
    /\ UNCHANGED <<kbob_versions, kbob_materials, life_expectancy, processing_errors,
                   processing_results, ifc_elements>>
    /\ UNCHANGED <<costInputs, cost_exc, cost_element_data, cost_data, costLocals>>
    /\ UNCHANGED <<lcaVars, mainVars, archiveVars, adminVars, storedVars, orchVars>>

\* CostProcessor.save_results with DatabaseManager.save_project_results: one
\* transaction, rolled back and only logged when an INSERT is refused
Cost_save_results ==
    /\ cost_pc = "processed"
    /\ LET version == get_active_kbob_version(kbob_versions)
       IN  processing_results' =
               IF InsertsAccepted(cost_self_results, version, DOMAIN ifc_elements)
               THEN processing_results \o ResultRows(cost_project_id, cost_self_results, version)
               ELSE processing_results
    /\ cost_pc' = "done"
    /\ UNCHANGED <<kbob_versions, kbob_materials, life_expectancy, projects,
                   processing_errors, processing_history, ifc_elements>>
    /\ UNCHANGED <<costInputs, cost_exc, cost_element_data, cost_data, cost_self_results,
                   costLocals>>
    /\ UNCHANGED <<lcaVars, mainVars, archiveVars, adminVars, storedVars, orchVars>>

Cost_run ==
    \/ Cost_load_data
    \/ Cost_process_begin
    \/ Cost_element
    \/ Cost_process_end
    \/ Cost_save_results

\* a cost run on its own: the LCA engine idle
InitCost ==
    /\ DbInit
    /\ LcaIdle
    /\ CostIdle
    /\ MainIdle
    /\ ArchiveIdle
    /\ AdminIdle
    /\ StoredIdle
    /\ OrchIdle
    /\ OwnProjects
    /\ kbob_versions \in {VersionsActive, VersionsInactive}
    /\ input_file = <<>>
    /\ mappings_file = <<>>
    /\ cost_input_file \in CostBatches
    /\ cost_data_file \in CostTables

NextCost == Cost_run

SpecCost == InitCost /\ [][NextCost]_vars

\* the (element row, component) pairs the cost run has emitted so far
CostEmitted ==
    {[element |-> cost_element_data.rows[k], component |-> cost_results[k].components[1]] :
        k \in 1..Len(cost_results)}

\* the cost reference rows whose code is the element's classification code
CostRowsFor(ebkp_h) == {cost_data.rows[k] : k \in {j \in 1..Len(cost_data.rows) : cost_data.rows[j].Code = ebkp_h}}

\* ------------------------------------------------------------ main run
\* the batches of the runs of both engines over the same element ids
MainLcaElements ==
    {Element("E1", NoKey, "B", <<"Concrete">>, [x \in {"Concrete"} |-> MdOk]),
     Element("E2", NoKey, "B", <<"Stroh", "Concrete">>, [x \in {"Stroh", "Concrete"} |-> MdOk]),
     Element("E1", NoKey, "C", <<"Kies", "Concrete">>, [x \in {"Kies", "Concrete"} |-> MdOk])}
MainCostElements ==
    {CostElement("E1", "C", Num(5000), Num(1000)),
     CostElement("E2", "M", Num(5000), Num(1000)),
     CostElement("E2", "Z", Num(5000), Num(1000))}

\* main, lines 145-181: the two result lists combined
Main_combine ==
    /\ main_pc = "running"
    /\ lca_pc = "done"
    /\ cost_pc = "done"
    /\ combined_results' = combine_results(lca_results, cost_self_results)
    /\ main_pc' = "combined"
    /\ UNCHANGED <<dbVars, lcaVars, costVars, archiveVars, adminVars, storedVars, orchVars>>

\* main, lines 122-181: the LCA run, then the cost run, then the combination
Main_run ==
    \/ LCA_run
    \/ (lca_pc = "done" /\ Cost_run)
    \/ Main_combine

InitMain ==
    /\ DbInit
    /\ LcaIdle
    /\ CostIdle
    /\ MainIdle
    /\ ArchiveIdle
    /\ AdminIdle
    /\ StoredIdle
    /\ OrchIdle
    /\ OwnProjects
    /\ kbob_versions = VersionsActive
    /\ input_file \in SeqsUpTo(MainLcaElements, MaxElems) \ {<<>>}
    /\ mappings_file \in MappingLists
    /\ cost_input_file \in {[columns |-> DbColumns, rows |-> rows] :
                                rows \in SeqsUpTo(MainCostElements, MaxElems) \ {<<>>}}
    /\ cost_data_file = [columns |-> {"Code", "Kennwert", "reference"}, rows |-> CostRows]

NextMain == Main_run

SpecMain == InitMain /\ [][NextMain]_vars

\* ------------------------------------------- reference data administration
CsvRow(uuid, raw) ==
    [uuid |-> uuid, name |-> "Material", co2eq |-> 10, penre |-> 25, ubp |-> 90, density |-> raw]
\* the raw density of each material of the import files
CsvRaw == [M1 |-> RawNumber(2400), M2 |-> RawRange(1400, 1500), M3 |-> RawText, M4 |-> RawAbsent]
KbobCsvFiles ==
    {<<CsvRow("M1", CsvRaw["M1"]), CsvRow("M2", CsvRaw["M2"])>>,
     <<CsvRow("M3", CsvRaw["M3"]), CsvRow("M4", CsvRaw["M4"])>>}
AdminVersions == {"v0", "v1", "v2"}

\* DatabaseManager.import_kbob_data(csv_path, version): one transaction
import_kbob_data(csv, version) ==
    /\ kbob_materials' = {r \in kbob_materials : r.version # version}
                             \cup ImportedRows(csv, version)
    /\ kbob_versions' = {r \in kbob_versions : r.version # version}
                            \cup {[version |-> version, is_active |-> FALSE,
                                   release_date |-> Today]}
    /\ admin_exc' = NoExc
    /\ UNCHANGED <<life_expectancy, projects, processing_errors, processing_history,
                   processing_results, ifc_elements>>
    /\ UNCHANGED <<lcaVars, costVars, mainVars, archiveVars, storedVars, orchVars>>

Import_kbob_data ==
    \E csv \in KbobCsvFiles, version \in AdminVersions : import_kbob_data(csv, version)

\* variant: an unknown version raises without a rollback
set_active_kbob_version_no_rollback(version, use_transaction) ==
    /\ IF \E r \in kbob_versions : r.version = version
       THEN /\ kbob_versions' = Activated(Deactivated(kbob_versions), version)
            /\ admin_exc' = NoExc
       ELSE /\ kbob_versions' = Deactivated(kbob_versions)
            /\ admin_exc' = Exc("ValueError", "Version not found", version, 0)
    /\ UNCHANGED <<kbob_materials, life_expectancy, projects, processing_errors,
                   processing_history, processing_results, ifc_elements>>
    /\ UNCHANGED <<lcaVars, costVars, mainVars, archiveVars, storedVars, orchVars>>

\* DatabaseManager.set_active_kbob_version(version, use_transaction): an unknown
\* version raises, after a rollback when the call opened the transaction
set_active_kbob_version(version, use_transaction) ==
    /\ IF \E r \in kbob_versions : r.version = version
       THEN /\ kbob_versions' = Activated(Deactivated(kbob_versions), version)
            /\ admin_exc' = NoExc
       ELSE /\ kbob_versions' = IF use_transaction THEN kbob_versions
                                ELSE Deactivated(kbob_versions)
            /\ admin_exc' = Exc("ValueError", "Version not found", version, 0)
    /\ UNCHANGED <<kbob_materials, life_expectancy, projects, processing_errors,
                   processing_history, processing_results, ifc_elements>>
    /\ UNCHANGED <<lcaVars, costVars, mainVars, archiveVars, storedVars, orchVars>>

\* variant: the other versions left active
Set_active_kbob_version_keep ==
    /\ \E version \in AdminVersions, use_transaction \in BOOLEAN :
           /\ kbob_versions' =
                  IF \E r \in kbob_versions : r.version = version
                  THEN Activated(kbob_versions, version)
                  ELSE IF use_transaction THEN kbob_versions
                  ELSE Deactivated(kbob_versions)
           /\ admin_exc' = IF \E r \in kbob_versions : r.version = version
                           THEN NoExc
                           ELSE Exc("ValueError", "Version not found", version, 0)
    /\ UNCHANGED <<kbob_materials, life_expectancy, projects, processing_errors,
                   processing_history, processing_results, ifc_elements>>
    /\ UNCHANGED <<lcaVars, costVars, mainVars, archiveVars, storedVars, orchVars>>

\* a call of set_active_kbob_version, with or without a transaction of its own
Set_active_kbob_version ==
    \E version \in AdminVersions, use_transaction \in BOOLEAN :
        set_active_kbob_version(version, use_transaction)

\* scripts/fix_kbob_version.py main: the newest version of the materials made
\* the active one, its version row added when missing
Fix_kbob_version ==
    /\ LET versions == {r.version : r \in kbob_materials}
       IN  IF versions = {} THEN UNCHANGED kbob_versions
           ELSE LET latest_version == MaxVersion(versions)
                    added == IF \E r \in kbob_versions : r.version = latest_version
                             THEN kbob_versions
                             ELSE kbob_versions \cup {[version |-> latest_version,
                                                       is_active |-> TRUE,
                                                       release_date |-> Today]}
                IN  kbob_versions' = Activated(Deactivated(added), latest_version)
    /\ admin_exc' = NoExc
    /\ UNCHANGED <<kbob_materials, life_expectancy, projects, processing_errors,
                   processing_history, processing_results, ifc_elements>>
    /\ UNCHANGED <<lcaVars, costVars, mainVars, archiveVars, storedVars, orchVars>>

Admin ==
    \/ Import_kbob_data
    \/ Set_active_kbob_version
    \/ Fix_kbob_version

\* the reference data administered, no engine running
InitAdmin ==
    /\ DbInit
    /\ LcaIdle
    /\ CostIdle
    /\ MainIdle
    /\ ArchiveIdle
    /\ AdminIdle
    /\ StoredIdle
    /\ OrchIdle
    /\ OwnProjects
    /\ kbob_versions \in {{}, VersionsActive, VersionsInactive}
    /\ input_file = <<>>
    /\ mappings_file = <<>>
    /\ cost_input_file = EmptyFrame
    /\ cost_data_file = EmptyFrame

NextAdmin == Admin

SpecAdmin == InitAdmin /\ [][NextAdmin]_vars

\* ------------------------------ LCA run while the active version changes
\* an LCA run, another actor setting the active version between its steps
LCA_with_version_changes ==
    \/ LCA_run
    \/ Set_active_kbob_version

InitVersionChange ==
    /\ DbInit
    /\ LcaIdle
    /\ CostIdle
    /\ MainIdle
    /\ ArchiveIdle
    /\ AdminIdle
    /\ StoredIdle
    /\ OrchIdle
    /\ OwnProjects
    /\ kbob_versions = VersionsActive
    /\ input_file \in SeqsUpTo(MainLcaElements, MaxElems) \ {<<>>}
    /\ mappings_file \in MappingLists
    /\ cost_input_file = EmptyFrame
    /\ cost_data_file = EmptyFrame

NextVersionChange == LCA_with_version_changes

SpecVersionChange == InitVersionChange /\ [][NextVersionChange]_vars

\* ------------------------ both engines on one project, steps interleaved
\* LCAProcessor.run and CostProcessor.run on the same project, each load,
\* process and save step of one taken between the steps of the other
Concurrent_runs ==
    \/ LCA_run
    \/ Cost_run

InitConcurrent ==
    /\ DbInit
    /\ LcaIdle
    /\ CostIdle
    /\ MainIdle
    /\ ArchiveIdle
    /\ AdminIdle
    /\ StoredIdle
    /\ OrchIdle
    /\ lca_project_id = SharedProject
    /\ cost_project_id = SharedProject
    /\ kbob_versions = VersionsActive
    /\ input_file \in SeqsUpTo(MainLcaElements, MaxElems) \ {<<>>}
    /\ mappings_file \in MappingLists
    /\ cost_input_file \in {[columns |-> DbColumns, rows |-> rows] :
                                rows \in SeqsUpTo(MainCostElements, MaxElems) \ {<<>>}}
    /\ cost_data_file \in CostTables

NextConcurrent == Concurrent_runs

SpecConcurrent == InitConcurrent /\ [][NextConcurrent]_vars

\* --------------------------------------------- a run of either engine
\* one run: of the LCA engine on an element batch, or of the cost engine on
\* an element table; the engine without input raises in its load_data
Either_run ==
    \/ LCA_run
    \/ Cost_run

InitEither ==
    \/ Init
    \/ InitCost

NextEither == Either_run

SpecEither == InitEither /\ [][NextEither]_vars

\* ------------------------------------------------ object archive (MinIO)
\* the most stores of one behaviour
MaxStores == 3

\* names are sequences of characters, so that a prefix is a prefix of text
Chars(data_type) == IF data_type = "lca" THEN <<"l", "c", "a">> ELSE <<"c", "o", "s", "t">>
\* datetime.now().isoformat(): one text per instant, all of the same length
IsoFormat(t) == <<ToString(t)>>

\* _get_object_path, lines 50-53: f"{data_type}/{project_id}/{filename}_{timestamp}.parquet"
ObjectName(data_type, project_id, filename, timestamp) ==
    Chars(data_type) \o <<"/">> \o project_id \o <<"/">> \o filename \o <<"_">>
        \o IsoFormat(timestamp) \o <<".parquet">>

\* get_lca_data / get_cost_data: f"{data_type}/{project_id}/{filename}"
Prefix(data_type, project_id, filename) ==
    Chars(data_type) \o <<"/">> \o project_id \o <<"/">> \o filename

StartsWith(name, prefix) ==
    /\ Len(prefix) <= Len(name)
    /\ SubSeq(name, 1, Len(prefix)) = prefix

\* DataFrame.to_parquet and pandas.read_parquet
to_parquet(data) == [parquet |-> data]
read_parquet(bytes) == bytes.parquet

\* client.list_objects(bucket, prefix=prefix)
list_objects(objects, prefix) ==
    {o \in objects : StartsWith(ObjectName(o.data_type, o.project_id, o.filename, o.timestamp), prefix)}

NoFrame == "<raised>"

\* get_lca_data / get_cost_data, lines 125-150: the frame of the object
\* modified last among those listed; sorted(...)[-1] of no object raises
get_data(objects, data_type, project_id, filename) ==
    LET listed == list_objects(objects, Prefix(data_type, project_id, filename))
    IN  IF listed = {} THEN NoFrame
        ELSE LET latest_object == CHOOSE o \in listed :
                                      \A other \in listed : other.last_modified <= o.last_modified
             IN  read_parquet(latest_object.data)

get_lca_data(objects, project_id, filename) == get_data(objects, "lca", project_id, filename)
get_cost_data(objects, project_id, filename) == get_data(objects, "cost", project_id, filename)

\* the inputs of the archive operations
ArchiveProjects == {<<"P">>, <<"P", "2">>}
ArchiveFilenames == {<<"r">>, <<"r", "2">>}
ArchiveFrames == {"D1", "D2"}

\* store_lca_data / store_cost_data, lines 55-123
Store_data(data_type) ==
    /\ minio_clock <= MaxStores
    /\ \E project_id \in ArchiveProjects, filename \in ArchiveFilenames, data \in ArchiveFrames :
           minio_objects' = minio_objects \cup
               {[data_type |-> data_type, project_id |-> project_id, filename |-> filename,
                 timestamp |-> minio_clock, last_modified |-> minio_clock,
                 data |-> to_parquet(data)]}
    /\ minio_clock' = minio_clock + 1
    /\ UNCHANGED <<dbVars, lcaVars, costVars, mainVars, adminVars, storedVars, orchVars>>

Store_lca_data == Store_data("lca")
Store_cost_data == Store_data("cost")

Archive ==
    \/ Store_lca_data
    \/ Store_cost_data

InitArchive ==
    /\ DbInit
    /\ LcaIdle
    /\ CostIdle
    /\ MainIdle
    /\ ArchiveIdle
    /\ AdminIdle
    /\ StoredIdle
    /\ OrchIdle
    /\ OwnProjects
    /\ kbob_versions = VersionsActive
    /\ input_file = <<>>
    /\ mappings_file = <<>>
    /\ cost_input_file = EmptyFrame
    /\ cost_data_file = EmptyFrame

NextArchive == Archive

SpecArchive == InitArchive /\ [][NextArchive]_vars

\* ------------------------------------------------- observation helpers
\* the (element, material, component) triples the run has emitted so far:
\* those of the finished elements and those of the element in progress
EmittedIn(element, components) ==
    {[element |-> element, material_name |-> element.materials[j], component |-> components[j]] :
        j \in 1..(IF Len(components) < Len(element.materials)
                  THEN Len(components) ELSE Len(element.materials))}

Emitted ==
    UNION {EmittedIn(lca_element_data[i], results[i].components) :
              i \in 1..(IF Len(results) < Len(lca_element_data)
                        THEN Len(results) ELSE Len(lca_element_data))}
    \cup (IF lca_pc = "material"
          THEN EmittedIn(lca_element_data[elem_idx], element_result)
          ELSE {})

PairErrorMessages ==
    {"Invalid volume", "Invalid density", "Material mapping not found", "KBOB ID not found",
     TypeErrorLE.msg}

\* the per-material record of a pair, with the defaults of lines 168-170
PairVolume(t) == DictGet(MaterialData(t.element, t.material_name).volume, Num(0))
PairFraction(t) == DictGet(MaterialData(t.element, t.material_name).fraction, Num(10))
PairDensity(t) == DictGet(MaterialData(t.element, t.material_name).density, Num(0))
PairKbobId(t) == MappingGet(material_mappings, t.material_name)
PairHasReference(t) ==
    /\ Truthy(PairKbobId(t))
    /\ \E r \in kbob_materials : r.uuid = PairKbobId(t) /\ r.version = active_version

\* --------------------------------------------------------- Orchestrator
\* a step of process_ifc started or returned while a message is handled
Event(offset, step) == [msg |-> offset, step |-> step]

\* LCAProcessor(input_file_path=None, material_mappings_file=None, ...): a new
\* processor
LcaReset ==
    /\ lca_pc' = "new"
    /\ lca_exc' = NoExc
    /\ lca_element_data' = <<>>
    /\ lca_material_mappings' = <<>>
    /\ lca_results' = <<>>
    /\ active_version' = NoVersion
    /\ material_mappings' = <<>>
    /\ results' = <<>>
    /\ total_elements' = 0
    /\ processed_elements' = 0
    /\ failed_elements' = 0
    /\ elem_idx' = 0
    /\ mat_idx' = 0
    /\ element_result' = <<>>
    /\ UNCHANGED lcaInputs

\* CostProcessor(input_file_path=None, data_file_path=None, ...): a new
\* processor
CostReset ==
    /\ cost_pc' = "new"
    /\ cost_exc' = NoExc
    /\ cost_element_data' = EmptyFrame
    /\ cost_data' = EmptyFrame
    /\ cost_self_results' = <<>>
    /\ cost_results' = <<>>
    /\ cost_total_elements' = 0
    /\ cost_processed_elements' = 0
    /\ cost_failed_elements' = 0
    /\ cost_idx' = 0
    /\ UNCHANGED costInputs

\* the outcomes of fetch_ifc and send_to_api: an exception, a response
\* without "elements", or a response with elements
ExtractionResponse(raised, has_elements, elements) ==
    [raised |-> raised, has_elements |-> has_elements, elements |-> elements]
ExtractionResponses ==
    {ExtractionResponse(TRUE, FALSE, <<>>), ExtractionResponse(FALSE, FALSE, <<>>)}
    \cup {ExtractionResponse(FALSE, TRUE, <<e>>) :
            e \in {Extracted("C", <<"Concrete">>, [x \in {"Concrete"} |-> MdOk], Num(5000), Num(1000)),
                   Extracted("M", <<"Kies">>, [x \in {"Kies"} |-> MdInvalid], NoneV, Num(1000))}}

\* the response handle_message produces
CompletedResponse(project_id) == [status |-> "completed", project_id |-> project_id]

\* Orchestrator.run, lines 151-160, and handle_message, lines 114-124: a
\* message polled; one that carries an error or an empty payload is logged
\* and the loop continues, any other starts process_ifc with the extraction
Orch_poll ==
    /\ orch_pc = "poll"
    /\ input_topic # <<>>
    /\ LET msg == Head(input_topic)
       IN  /\ input_topic' = Tail(input_topic)
           /\ orch_msg' = msg
           /\ IF msg.error \/ msg.value = "" \/ Strip(msg.value) = ""
              THEN /\ orch_pc' = "poll"
                   /\ orch_trace' = Append(orch_trace, Event(msg.offset, "skipped"))
              ELSE /\ orch_pc' = "extract"
                   /\ orch_trace' = Append(orch_trace, Event(msg.offset, "extract"))
    /\ UNCHANGED output_topic
    /\ UNCHANGED <<dbVars, lcaVars, costVars, mainVars, archiveVars, adminVars, storedVars>>

\* process_ifc, lines 69-86: IFCExtractBuildingElementsService.run; when it
\* raises, handle_message logs the exception and returns, otherwise the LCA
\* processor is constructed
Orch_extract ==
    /\ orch_pc = "extract"
    /\ \E response \in ExtractionResponses :
          IF response.raised \/ ~response.has_elements
          THEN /\ orch_pc' = "poll"
               /\ orch_trace' = Append(orch_trace, Event(orch_msg.offset, "raised"))
               /\ UNCHANGED <<projects, ifc_elements, ifc_element_materials, lcaVars>>
          ELSE /\ store_data(response.elements, SharedProject)
               /\ orch_pc' = "lca"
               /\ orch_trace' = orch_trace \o <<Event(orch_msg.offset, "extract_returned"),
                                                Event(orch_msg.offset, "lca")>>
               /\ LcaReset
    /\ UNCHANGED <<kbob_versions, kbob_materials, life_expectancy, processing_errors,
                   processing_history, processing_results>>
    /\ UNCHANGED <<material_mappings_table, cost_reference>>
    /\ UNCHANGED <<input_topic, orch_msg, output_topic>>
    /\ UNCHANGED <<costVars, mainVars, archiveVars, adminVars>>

\* process_ifc, line 86: lca_processor.run() in progress
Orch_lca_step ==
    /\ orch_pc = "lca"
    /\ lca_pc \notin {"done", "raised"}
    /\ LCA_run

\* process_ifc, lines 86-96: lca_processor.run() has returned or raised; when
\* it returned the cost processor is constructed
Orch_lca_return ==
    /\ orch_pc = "lca"
    /\ lca_pc \in {"done", "raised"}
    /\ IF lca_pc = "raised"
       THEN /\ orch_pc' = "poll"
            /\ orch_trace' = Append(orch_trace, Event(orch_msg.offset, "raised"))
            /\ UNCHANGED costVars
       ELSE /\ orch_pc' = "cost"
            /\ orch_trace' = orch_trace \o <<Event(orch_msg.offset, "lca_returned"),
                                             Event(orch_msg.offset, "cost")>>
            /\ CostReset
    /\ UNCHANGED <<input_topic, orch_msg, output_topic>>
    /\ UNCHANGED <<dbVars, lcaVars, mainVars, archiveVars, adminVars, storedVars>>

\* process_ifc, line 96: cost_processor.run() in progress
Orch_cost_step ==
    /\ orch_pc = "cost"
    /\ cost_pc \notin {"done", "raised"}
    /\ Cost_run

\* variant: the response produced whether or not the cost run raised
Orch_cost_return_always_respond ==
    /\ orch_pc = "cost"
    /\ cost_pc \in {"done", "raised"}
    /\ orch_pc' = "poll"
    /\ orch_trace' = orch_trace \o <<Event(orch_msg.offset, "cost_returned"),
                                     Event(orch_msg.offset, "produced")>>
    /\ output_topic' = Append(output_topic, CompletedResponse(SharedProject))
    /\ UNCHANGED <<input_topic, orch_msg>>
    /\ UNCHANGED <<dbVars, lcaVars, costVars, mainVars, archiveVars, adminVars, storedVars>>

\* process_ifc, lines 96-110, and handle_message, lines 126-145:
\* cost_processor.run() has returned or raised; when it returned the
\* 'completed' response is produced and flushed
Orch_cost_return ==
    /\ orch_pc = "cost"
    /\ cost_pc \in {"done", "raised"}
    /\ orch_pc' = "poll"
    /\ IF cost_pc = "raised"
       THEN /\ orch_trace' = Append(orch_trace, Event(orch_msg.offset, "raised"))
            /\ UNCHANGED output_topic
       ELSE /\ orch_trace' = orch_trace \o <<Event(orch_msg.offset, "cost_returned"),
                                             Event(orch_msg.offset, "produced")>>
            /\ output_topic' = Append(output_topic, CompletedResponse(SharedProject))
    /\ UNCHANGED <<input_topic, orch_msg>>
    /\ UNCHANGED <<dbVars, lcaVars, costVars, mainVars, archiveVars, adminVars, storedVars>>

\* the payloads of the input topic
IfcUrl == "http://minio1:9001/ifc-files/model.ifc"
OrchInputs ==
    {<<Message(1, FALSE, IfcUrl)>>,
     <<Message(1, FALSE, IfcUrl), Message(2, FALSE, IfcUrl)>>,
     <<Message(1, FALSE, ""), Message(2, FALSE, IfcUrl)>>,
     <<Message(1, TRUE, ""), Message(2, FALSE, " "), Message(3, FALSE, IfcUrl)>>}

\* the rows of table cost_reference
CostReferenceRows ==
    <<CostReferenceRow("C", Num(12000), "m2"), CostReferenceRow("M", Num(8000), "m")>>

InitOrch ==
    /\ DbInit
    /\ LcaIdle
    /\ CostIdle
    /\ MainIdle
    /\ ArchiveIdle
    /\ AdminIdle
    /\ kbob_versions \in {VersionsActive, VersionsInactive}
    /\ lca_project_id = SharedProject
    /\ cost_project_id = SharedProject
    /\ input_file = NoPath
    /\ mappings_file = NoPath
    /\ cost_input_file = NoFramePath
    /\ cost_data_file = NoFramePath
    /\ ifc_element_materials = <<>>
    /\ material_mappings_table \in {<<>>, <<MappingRow("Concrete", "K1")>>}
    /\ cost_reference \in {<<>>, CostReferenceRows}
    /\ orch_pc = "poll"
    /\ input_topic \in OrchInputs
    /\ orch_msg = NoMessage
    /\ output_topic = <<>>
    /\ orch_trace = <<>>

NextOrch ==
    \/ Orch_poll
    \/ Orch_extract
    \/ Orch_lca_step
    \/ Orch_lca_return
    \/ Orch_cost_step
    \/ Orch_cost_return

SpecOrch == InitOrch /\ [][NextOrch]_vars

\* ================================================================ claims

\* C1: a failure of one (element, material) pair yields a failed component for
\* that pair only. While the material loop runs it has appended exactly one
\* component per material visited, in list order; a finished process_data
\* holds one result per element of its batch, in batch order, with one
\* component per material in list order, each failed iff its own pair fails;
\* and no pair failure ever ends the run with an exception.
C1_PairFailureIsolated ==
    /\ lca_pc = "material" =>
          /\ Len(element_result) = mat_idx - 1
          /\ \A j \in 1..Len(element_result) :
                /\ element_result[j].material = lca_element_data[elem_idx].materials[j]
                /\ element_result[j].guid = lca_element_data[elem_idx].id
    /\ lca_pc \in {"processed", "done"} =>
          /\ Len(lca_results) = Len(lca_element_data)
          /\ \A i \in 1..Len(lca_results) :
                LET element == lca_element_data[i]
                    components == lca_results[i].components
                IN  /\ lca_results[i].guid = element.id
                    /\ Len(components) = Len(element.materials)
                    /\ \A j \in 1..Len(components) :
                          /\ components[j].material = element.materials[j]
                          /\ components[j].guid = element.id
                          /\ components[j].failed <=>
                                PairError(element, element.materials[j], material_mappings,
                                          active_version, kbob_materials) # NoExc
    /\ lca_pc = "raised" => lca_exc.msg \notin PairErrorMessages

\* C1 witness: a finished run of two elements in which the first material of
\* the first element failed, its second material succeeded and so did the
\* second element
C1_Witness ==
    /\ lca_pc = "done"
    /\ Len(lca_results) = 2
    /\ Len(lca_results[1].components) = 2
    /\ lca_results[1].components[1].failed
    /\ ~lca_results[1].components[2].failed
    /\ ~lca_results[2].components[1].failed

\* C2: for a structurally well-formed batch the run always completes and
\* returns a result list: no per-record data problem makes LCAProcessor.run
\* raise (the only exception left is the missing active reference version,
\* which is no property of the batch).
C2_RunNeverRaises ==
    lca_pc = "raised" => lca_exc.msg = "No active KBOB version found in database"

\* C3: after a run, an element with an identifier of its own none of whose materials
\* yields a successful component is present in the result list under its own
\* identifier, with at least one failed component.
C3_InvalidElementReported ==
    lca_pc = "done" =>
        \A i \in 1..Len(input_file) :
            LET element == input_file[i]
            IN  (/\ element.id # NoKey
                 /\ \A o \in 1..Len(input_file) : o # i => input_file[o].id # element.id
                 /\ element.materials # <<>>
                 /\ \A j \in 1..Len(element.materials) :
                       PairError(element, element.materials[j], BuildMappings(mappings_file),
                                 get_active_kbob_version(kbob_versions), kbob_materials) # NoExc)
                => \E k \in 1..Len(lca_results) :
                      /\ lca_results[k].guid = element.id
                      /\ \E c \in 1..Len(lca_results[k].components) :
                            lca_results[k].components[c].failed

\* the reference row of a pair, and what the claims call a computable pair
PairReference(t) ==
    CHOOSE r \in kbob_materials : r.uuid = PairKbobId(t) /\ r.version = active_version

PairComputable(t) ==
    /\ PairVolume(t).tag = "num"
    /\ PairFraction(t).tag = "num"
    /\ PairVolume(t).v * PairFraction(t).v > 0
    /\ PairDensity(t).tag = "num"
    /\ PairDensity(t).v > 0
    /\ PairHasReference(t)

OneComponentPerVisitedMaterial ==
    lca_pc = "material" => Len(element_result) = mat_idx - 1

\* C4 as stated: for a pair with effective volume > 0, density > 0, a mapping
\* and a matching reference row, exactly one component is emitted, it has
\* failed = false, and its per-year GWP is round(gwp_absolute / amortization, 3)
\* computed from the reported (rounded) gwp_absolute.
C4_PerYearFromReported ==
    /\ OneComponentPerVisitedMaterial
    /\ \A t \in Emitted :
          PairComputable(t) =>
             /\ ~t.component.failed
             /\ t.component.gwp_relative =
                   RoundHalfEven(t.component.gwp_absolute, t.component.amortization)

\* C4 as amended: each pass of the material loop over such a pair appends
\* exactly one component, it has failed = false, and its per-year GWP is
\* round(co2_eq / amortization, 3) with co2_eq = volume * density * factor
\* unrounded.
C4_PerYearFromUnrounded ==
    /\ OneComponentPerVisitedMaterial
    /\ \A t \in Emitted :
          PairComputable(t) =>
             /\ ~t.component.failed
             /\ t.component.gwp_relative =
                   RoundHalfEven(PairVolume(t).v * PairDensity(t).v
                                    * PairReference(t).indicator_co2eq,
                                 10 * t.component.amortization)

\* C4 witness: a success component of a computable pair whose per-year GWP
\* differs from the value recomputed from the reported gwp_absolute
C4_Witness ==
    \E t \in Emitted :
        /\ PairComputable(t)
        /\ ~t.component.failed
        /\ t.component.gwp_relative #
              RoundHalfEven(t.component.gwp_absolute, t.component.amortization)

\* the end-to-end scenario: E1, one material, volume 10, fraction 1.0,
\* density 2300, GWP factor 0.1, service life 50 years
EndToEndScenario ==
    /\ input_file = <<Element("E1", NoKey, "B", <<"Concrete">>, [x \in {"Concrete"} |-> MdOk])>>
    /\ kbob_versions = VersionsActive
    /\ lca_pc = "done"

\* C5 as stated: the scenario yields a success component with
\* gwp_absolute = 230.0 and per-year GWP = 4.6.
C5_ScenarioAsStated ==
    EndToEndScenario =>
        /\ Len(lca_results) = 1
        /\ ~lca_results[1].components[1].failed
        /\ lca_results[1].components[1].gwp_absolute = 230000
        /\ lca_results[1].components[1].gwp_relative = 4600

\* C5 as amended: the scenario yields a success component with
\* gwp_absolute = 2300.0 (10 * 2300 * 0.1) and per-year GWP = 46.0.
C5_ScenarioAmended ==
    EndToEndScenario =>
        /\ Len(lca_results) = 1
        /\ Len(lca_results[1].components) = 1
        /\ ~lca_results[1].components[1].failed
        /\ lca_results[1].components[1].amortization = 50
        /\ lca_results[1].components[1].gwp_absolute = 2300000
        /\ lca_results[1].components[1].gwp_relative = 46000

\* C5 witness: the scenario has run to its end with one result
C5_Witness == EndToEndScenario /\ Len(lca_results) = 1

\* C6: the engine works on effective volume = volume * fraction: a component
\* fails with the invalid-volume error exactly when that product is <= 0, and
\* the three absolute indicators of a success component are
\* effective_volume * density * factor (rounded to 3, 3 and 0 decimals).
C6_EffectiveVolumeUsed ==
    \A t \in Emitted :
        (PairVolume(t).tag = "num" /\ PairFraction(t).tag = "num") =>
            LET effective == PairVolume(t).v * PairFraction(t).v
                c == t.component
            IN  /\ (c.failed /\ c.error.msg = "Invalid volume") <=> effective <= 0
                /\ ~c.failed =>
                      /\ c.gwp_absolute =
                            RoundHalfEven(effective * PairDensity(t).v
                                             * PairReference(t).indicator_co2eq, 100)
                      /\ c.penr_absolute =
                            RoundHalfEven(effective * PairDensity(t).v
                                             * PairReference(t).indicator_penre, 100)
                      /\ c.ubp_absolute =
                            1000 * RoundHalfEven(effective * PairDensity(t).v
                                                    * PairReference(t).indicator_ubp, 100000)

\* the density key of the per-material record, before the default of line 170
RawDensity(t) == MaterialData(t.element, t.material_name).density

\* C7 as stated: whenever the per-material record carries no density or a
\* density <= 0 the component fails with the invalid-density error, and every
\* component with failed = false has density > 0.
C7_InvalidDensityError ==
    \A t \in Emitted :
        /\ (RawDensity(t).tag = "absent" \/ (RawDensity(t).tag = "num" /\ RawDensity(t).v <= 0))
              => (t.component.failed /\ t.component.error.msg = "Invalid density")
        /\ ~t.component.failed => t.component.density > 0

\* C7 as amended: whenever the per-material record carries no density, a null
\* density or a density <= 0 the component fails; the error is the
\* invalid-density error when the record's volume is valid (> 0) and the
\* density is not null, otherwise the error raised first (invalid volume, or
\* the type error of comparing null); every component with failed = false has
\* the record's density, which is > 0.
C7_DensityNeverDefaulted ==
    \A t \in Emitted :
        /\ (RawDensity(t).tag # "num" \/ RawDensity(t).v <= 0) =>
              /\ t.component.failed
              /\ (PairVolume(t).tag = "num" /\ PairVolume(t).v > 0 /\ RawDensity(t).tag # "none")
                    => /\ t.component.error.msg = "Invalid density"
                       /\ t.component.error.num = PairDensity(t).v
              /\ (PairVolume(t).tag = "num" /\ PairVolume(t).v <= 0)
                    => t.component.error.msg = "Invalid volume"
        /\ ~t.component.failed =>
              /\ RawDensity(t).tag = "num"
              /\ t.component.density = 1000 * RawDensity(t).v
              /\ t.component.density > 0

\* C7 witness: two pairs without density, one failed with the invalid-density
\* error and one, whose volume is invalid too, with the invalid-volume error
C7_Witness ==
    /\ \E t \in Emitted :
          /\ RawDensity(t).tag = "absent"
          /\ t.component.failed
          /\ t.component.error.msg = "Invalid density"
    /\ \E t \in Emitted :
          /\ RawDensity(t).tag = "absent"
          /\ t.component.failed
          /\ t.component.error.msg = "Invalid volume"

\* a material without a usable mapping: no item of the mapping list names it
\* with a non-empty reference key
PairUnmapped(t) ==
    \A k \in 1..Len(lca_material_mappings) :
        lca_material_mappings[k].ifc_material = t.material_name
            => ~Truthy(lca_material_mappings[k].kbob_id)

\* C8 as stated: for every pair whose material has no mapping entry (or one
\* with an empty reference key) the component has failed = true and its error
\* text names the material; the absence never fails the batch.
C8_UnmappedNamesMaterial ==
    /\ \A t \in Emitted :
          PairUnmapped(t) =>
             /\ t.component.failed
             /\ t.component.error.name = t.material_name
    /\ lca_pc = "raised" => lca_exc.msg # "Material mapping not found"

\* C8 as amended: for every such pair the component has failed = true; its
\* error is the mapping-not-found error naming the material whenever the
\* pair's volume and density are valid (> 0), otherwise the volume or density
\* error raised before the mapping is looked up; the absence never fails the
\* batch.
C8_UnmappedFails ==
    /\ \A t \in Emitted :
          PairUnmapped(t) =>
             /\ t.component.failed
             /\ (PairVolume(t).tag = "num" /\ PairVolume(t).v > 0
                    /\ PairDensity(t).tag = "num" /\ PairDensity(t).v > 0)
                   <=> (/\ t.component.error.msg = "Material mapping not found"
                        /\ t.component.error.name = t.material_name)
    /\ lca_pc = "raised" => lca_exc.msg # "Material mapping not found"

\* C8 witness: a finished element with an unmapped material, failed with the
\* error naming it, next to a material of the same element that succeeded
C8_Witness ==
    /\ lca_pc = "done"
    /\ \E t \in Emitted :
          /\ PairUnmapped(t)
          /\ t.component.failed
          /\ t.component.error.msg = "Material mapping not found"
          /\ t.component.error.name = t.material_name
          /\ \E u \in Emitted : u.element = t.element /\ ~u.component.failed

\* the service-life rows stored for the classification code of a component
LifeRowsFor(ebkp_h) ==
    IF Truthy(ebkp_h) THEN {r \in life_expectancy : r.ebkp_code = Strip(ebkp_h)} ELSE {}

\* C9 as stated: the amortization of a success component equals the years
\* stored for the element's classification code, equals 60 whenever no entry
\* matches the code, and is never 0.
C9_AmortizationIsStoredYears ==
    \A t \in Emitted :
        ~t.component.failed =>
            LET rows == LifeRowsFor(t.component.ebkp_h)
            IN  /\ rows # {} => \E r \in rows : t.component.amortization = r.years
                /\ rows = {} => t.component.amortization = DefaultLifeExpectancy
                /\ t.component.amortization # 0

\* C9 as amended: the amortization of a success component equals the smallest
\* years value stored for the element's classification code when that value is
\* not 0, and the default 60 when no entry matches the code or the stored
\* value is 0; it is never 0.
C9_AmortizationMinOrDefault ==
    \A t \in Emitted :
        ~t.component.failed =>
            LET rows == LifeRowsFor(t.component.ebkp_h)
                c == t.component
            IN  /\ t.component.ebkp_h = ElementEbkp(t.element)
                /\ (rows # {} /\ \A r \in rows : r.years # 0) =>
                      /\ \E r \in rows : c.amortization = r.years
                      /\ \A r \in rows : c.amortization <= r.years
                /\ (rows = {} \/ \E r \in rows : r.years = 0) =>
                      c.amortization = DefaultLifeExpectancy
                /\ c.amortization # 0

\* C9 witness: a success component whose code has a stored service life of 0
\* years and whose amortization is the default
C9_Witness ==
    \E t \in Emitted :
        /\ ~t.component.failed
        /\ \E r \in LifeRowsFor(t.component.ebkp_h) : r.years = 0
        /\ t.component.amortization = DefaultLifeExpectancy

\* the total the claim states for a quantity and a rate: round(quantity * rate, 2)
StatedTotal(quantity, rate) == Num(RoundHalfEven(quantity.v * rate.v, 100))

\* C10 (as stated): for every element whose classification code has a cost
\* reference row, unit 'm2' gives total cost = net area * rate, unit 'm' gives
\* total cost = length * rate (rounded to 2 decimals), and any other unit gives
\* a failed component with an unknown-unit-type error and no cost.
C10_UnitDispatch ==
    \A t \in CostEmitted :
        \A r \in CostRowsFor(t.element.ebkp) :
            /\ r.reference = "m2" =>
                   /\ ~t.component.failed
                   /\ t.component.total_cost = StatedTotal(t.element.Area, r.Kennwert)
            /\ r.reference = "m" =>
                   /\ ~t.component.failed
                   /\ t.component.total_cost = StatedTotal(t.element.Length, r.Kennwert)
            /\ r.reference \notin {"m2", "m"} =>
                   /\ t.component.failed
                   /\ t.component.error.msg = "Unknown unit type"
                   /\ "total_cost" \notin DOMAIN t.component

\* C10 (amended): for every element whose stripped classification code has
\* exactly one cost reference row: with unit 'm2' ('m') and a net area (length)
\* that is a number > 0 the component succeeds and, for a numeric rate, its
\* total cost is round(area * rate, 2) (round(length * rate, 2)); with that
\* quantity missing or <= 0 the component fails with an invalid-quantity
\* error; with any other unit the component fails with an unknown-unit-type
\* error naming the unit and carries no cost.
C10_UnitDispatchOneRow ==
    \A t \in CostEmitted :
        \A r \in CostRowsFor(t.element.ebkp) :
            Cardinality(CostRowsFor(t.element.ebkp)) = 1 =>
                LET quantity == IF r.reference = "m2" THEN t.element.Area ELSE t.element.Length
                    valid == quantity.tag = "num" /\ quantity.v > 0
                IN  /\ (r.reference \in {"m2", "m"} /\ valid) =>
                        /\ ~t.component.failed
                        /\ t.component.unit = r.reference
                        /\ r.Kennwert.tag = "num" =>
                               t.component.total_cost = StatedTotal(quantity, r.Kennwert)
                    /\ (r.reference \in {"m2", "m"} /\ ~valid) =>
                        /\ t.component.failed
                        /\ t.component.error.msg = "Invalid quantity"
                        /\ "total_cost" \notin DOMAIN t.component
                    /\ r.reference \notin {"m2", "m"} =>
                        /\ t.component.failed
                        /\ t.component.error.msg = "Unknown unit type"
                        /\ t.component.error.name = AsStr(r.reference)
                        /\ "total_cost" \notin DOMAIN t.component

\* C10 witness: a finished cost run that priced 50.0 m2 at 120.0 as 6000.0 and
\* 10.0 m at 80.0 as 800.0
C10_Witness ==
    /\ cost_pc = "done"
    /\ \E t \in CostEmitted :
           /\ t.element.Area = Num(5000)
           /\ t.component.failed = FALSE
           /\ t.component.unit = "m2"
           /\ t.component.unit_cost = Num(12000)
           /\ t.component.total_cost = Num(600000)
    /\ \E t \in CostEmitted :
           /\ t.element.Length = Num(1000)
           /\ t.component.failed = FALSE
           /\ t.component.unit = "m"
           /\ t.component.unit_cost = Num(8000)
           /\ t.component.total_cost = Num(80000)

\* the rows of the element table the loop of the cost run has passed
CostVisited == IF cost_pc \in {"processed", "done"} THEN Len(cost_element_data.rows)
               ELSE IF cost_pc = "element" THEN cost_idx - 1 ELSE 0

\* every passed row has its element result, in row order, with one component
CostOneResultPerRow ==
    /\ Len(cost_results) = CostVisited
    /\ \A k \in 1..Len(cost_results) :
           /\ cost_results[k].guid = cost_element_data.rows[k].GUID
           /\ Len(cost_results[k].components) = 1

C12_SharedIffSeveralComponents ==
    \A rs \in {results, lca_results, cost_results, cost_self_results, combined_results} :
        \A k \in 1..Len(rs) : rs[k].shared_guid <=> Len(rs[k].components) > 1

\* C13: in the result list of an engine each element id appears in at most
\* one element result (two input records carrying the same id share one
\* result).
C13_OneResultPerId ==
    \A rs \in {results, lca_results, cost_results, cost_self_results} :
        \A j, k \in 1..Len(rs) : rs[j].guid = rs[k].guid => j = k

\* the components of a result list, each as an element result of its own
\* (the element result of lines 234-237 for a single component)
Singletons(rs) ==
    [k \in 1..Len(Flatten(rs)) |->
        [guid |-> Flatten(rs)[k].guid,
         components |-> <<Flatten(rs)[k]>>,
         shared_guid |-> Len(<<Flatten(rs)[k]>>) > 1]]

\* a result list flattened to its components and grouped again by element id
Regroup(rs) == combine_results(Singletons(rs), <<>>)

\* C14: grouping is idempotent: a grouped result list, flattened to its
\* components and grouped again by element id, gives the same groups in the
\* same order with the same shared flags.
C14_RegroupIdempotent ==
    \A rs \in {lca_results, cost_self_results, combined_results} : Regroup(rs) = rs

\* a column the cost run requires is missing from the element table or from
\* the cost reference table
CostStructuralError ==
    \/ JoinMissing(RequiredColumns, LoadedColumns(cost_input_file.columns)) # ""
    \/ ~({"Code", "Kennwert", "reference"} \subseteq cost_data_file.columns)

\* a cost run with a structural error computes no component, produces no
\* result list and persists no result
CostStopsBeforeComputing ==
    /\ cost_pc \in {"new", "loaded", "raised"}
    /\ cost_pc = "loaded" => ENABLED Cost_process_begin
    /\ cost_results = <<>>
    /\ cost_self_results = <<>>
    /\ processing_results = <<>>

C16_DensityResolved ==
    \A r \in kbob_materials :
        r.uuid \in DOMAIN CsvRaw =>
            LET raw == CsvRaw[r.uuid]
            IN  /\ raw.kind = "range" => r.density = Num((raw.a + raw.b) \div 2)
                /\ raw.kind = "number" => r.density = Num(raw.a)
                /\ raw.kind \in {"text", "absent"} => r.density = Num(0)

\* the versions marked active
ActiveVersions == {r.version : r \in {x \in kbob_versions : x.is_active}}

C18_RunUsesOneVersion ==
    lca_pc \in {"processed", "done"} =>
        LET version == projects[LcaProject].kbob_version
        IN  /\ active_version = version
            /\ \A k \in 1..Len(processing_history) :
                   processing_history[k].project_id = LcaProject =>
                       processing_history[k].kbob_version = version
            /\ \A k \in 1..Len(processing_results) :
                   processing_results[k].project_id = LcaProject =>
                       processing_results[k].kbob_version = version

\* C19: the engines do not mutate building elements: every element record
\* held in storage before a run of either engine keeps its classification
\* code and its physical quantities (net and gross volume, net and gross
\* area, length, width, height) throughout the run and after it.
C19_ElementsNotMutated ==
    \A id \in DOMAIN IfcElementsBefore :
        /\ id \in DOMAIN ifc_elements
        /\ \A field \in {"ebkp", "volume_net", "volume_gross", "area_net", "area_gross",
                         "length", "width", "height"} :
               ifc_elements[id][field] = IfcElementsBefore[id][field]

LcaFinished == lca_pc \in {"done", "raised"}
CostFinished == cost_pc \in {"done", "raised"}

\* the project record a finished LCA run leaves when no other run writes the
\* project: the version load_data recorded and the last status the run set
LcaRecord ==
    [kbob_version |-> get_active_kbob_version(kbob_versions),
     status |-> IF lca_pc = "done" THEN "completed"
                ELSE IF lca_exc.msg = "No valid elements found after validation"
                THEN "processing"
                ELSE "failed"]

\* the project record a finished cost run leaves when no other run writes
\* the project
CostRecord ==
    [kbob_version |-> "N/A",
     status |-> IF cost_pc = "done"
                THEN IF cost_failed_elements = 0 THEN "completed" ELSE "failed"
                ELSE IF cost_exc.type = "KeyError"
                THEN "failed"
                ELSE "processing"]

\* C20: the engines share no mutable state: when both runs on one project
\* with interleaved steps are finished, the stored project record (status and
\* recorded version) is the one that running them one after the other leaves,
\* that is the record of the run that came second, and the element records
\* are those the cost run's load_data leaves.
C20_InterleavingAsSequential ==
    (LcaFinished /\ CostFinished) =>
        /\ projects[SharedProject] \in {LcaRecord, CostRecord}
        /\ ifc_elements = IF cost_element_data.rows = <<>>
                          THEN IfcElementsBefore
                          ELSE store_ifc_elements(IfcElementsBefore, cost_input_file,
                                                  cost_project_id)

\* the result list an LCA run has built so far, the element in progress
\* included, and the one a cost run has built so far
LcaResultsSoFar ==
    results \o (IF lca_pc = "material"
                THEN <<ElementResult(lca_element_data[elem_idx], element_result)>>
                ELSE <<>>)
CostResultsSoFar == cost_results

\* the failed components of a result list, in order
FailedOf(rs) == SelectSeq(Flatten(rs), LAMBDA c : c.failed)
\* the error rows logged for a project, in order
LoggedFor(project_id) == SelectSeq(processing_errors, LAMBDA r : r.project_id = project_id)

\* every component carries a boolean failed flag and the id of its result
ComponentsWellFormed(rs) ==
    \A k \in 1..Len(rs) : \A j \in 1..Len(rs[k].components) :
        LET c == rs[k].components[j]
        IN  /\ "failed" \in DOMAIN c
            /\ c.failed \in BOOLEAN
            /\ c.guid = rs[k].guid
            /\ c.guid # NoKey

\* C21: failures are exposed as structured records besides the result tree:
\* at every point of a run the error rows logged for its project correspond
\* one to one, in order, to the failed components built so far, each row
\* carrying the component's element id, its message and, for the LCA engine,
\* its material name; every component has a boolean failed flag and the id of
\* the result it sits in; a component that succeeded has no error row.
C21_ErrorsMatchFailedComponents ==
    /\ ComponentsWellFormed(LcaResultsSoFar)
    /\ ComponentsWellFormed(CostResultsSoFar)
    /\ LET failed == FailedOf(LcaResultsSoFar)
           logged == LoggedFor(lca_project_id)
       IN  /\ Len(logged) = Len(failed)
           /\ \A k \in 1..Len(failed) :
                  /\ logged[k].element_id = failed[k].guid
                  /\ logged[k].material_name = failed[k].material
                  /\ logged[k].error_message = failed[k].error
    /\ LET failed == FailedOf(CostResultsSoFar)
           logged == LoggedFor(cost_project_id)
       IN  /\ Len(logged) = Len(failed)
           /\ \A k \in 1..Len(failed) :
                  /\ logged[k].element_id = failed[k].guid
                  /\ logged[k].error_message = failed[k].error

\* C21 witness: a finished LCA run with a failed and a succeeded component and
\* one logged error row
C21_Witness ==
    /\ lca_pc = "done"
    /\ Len(FailedOf(lca_results)) = 1
    /\ Len(Flatten(lca_results)) = 2
    /\ Len(LoggedFor(lca_project_id)) = 1

\* C21 witness for the cost engine is part of the same specification: a
\* finished cost run with one failed component and its error row
CostFailureLogged ==
    /\ cost_pc = "done"
    /\ Len(FailedOf(cost_self_results)) = 1
    /\ Len(LoggedFor(cost_project_id)) = 1

\* the objects stored under exactly this data type, project and filename
StoredUnder(data_type, project_id, filename) ==
    {o \in minio_objects : /\ o.data_type = data_type
                           /\ o.project_id = project_id
                           /\ o.filename = filename}

\* C22: archive round trip: get_lca_data(project, filename), respectively
\* get_cost_data, returns the frame most recently stored under exactly that
\* project and filename, whatever else has been stored under other filenames
\* or projects.
C22_ArchiveRoundTrip ==
    \A data_type \in {"lca", "cost"}, project_id \in ArchiveProjects, filename \in ArchiveFilenames :
        LET stored == StoredUnder(data_type, project_id, filename)
        IN  stored # {} =>
                \E o \in stored :
                    /\ \A other \in stored : other.last_modified <= o.last_modified
                    /\ get_data(minio_objects, data_type, project_id, filename) = o.data.parquet

\* C24: project status lifecycle: a stored status is one of active,
\* processing, completed, failed; load_data sets it to processing; whenever a
\* run of either engine has returned or raised, the status of its project is
\* completed or failed, never left at processing.
C24_StatusLifecycle ==
    /\ \A p \in ProjectIds :
           projects[p].status \in {"none", "active", "processing", "completed", "failed"}
    /\ lca_pc = "loaded" => projects[lca_project_id].status = "processing"
    /\ cost_pc = "loaded" => projects[cost_project_id].status = "processing"
    /\ LcaFinished => projects[lca_project_id].status \in {"completed", "failed"}
    /\ CostFinished => projects[cost_project_id].status \in {"completed", "failed"}

\* C25 (as stated): for both engines a run whose process_data returned ends
\* with status completed even when components failed; failed is set only when
\* process_data raises.
C25_CompletedOnReturn ==
    /\ lca_pc \in {"processed", "done"} => projects[lca_project_id].status = "completed"
    /\ cost_pc \in {"processed", "done"} => projects[cost_project_id].status = "completed"
    /\ projects[lca_project_id].status = "failed" => lca_pc = "raised"
    /\ projects[cost_project_id].status = "failed" => cost_pc = "raised"

\* C25 (amended): an LCA run whose process_data returned ends with status
\* completed even when components failed, and its status is failed only when
\* process_data raised; a cost run whose process_data returned ends with
\* status completed when no element failed and with status failed when one
\* did, and its status is failed only then or when process_data raised.
C25_StatusOnReturn ==
    /\ lca_pc \in {"processed", "done"} => projects[lca_project_id].status = "completed"
    /\ projects[lca_project_id].status = "failed" => lca_pc = "raised"
    /\ cost_pc \in {"processed", "done"} =>
           projects[cost_project_id].status =
               IF FailedOf(cost_self_results) = <<>> THEN "completed" ELSE "failed"
    /\ projects[cost_project_id].status = "failed" =>
           \/ cost_pc = "raised"
           \/ cost_pc \in {"processed", "done"} /\ FailedOf(cost_self_results) # <<>>

\* C25 witness: an LCA run whose process_data returned with a failed component
\* and status completed
C25_Witness ==
    /\ lca_pc = "processed"
    /\ FailedOf(lca_results) # <<>>
    /\ projects[lca_project_id].status = "completed"

\* a cost run whose process_data returned with a failed element: status failed
CostReturnedFailed ==
    /\ cost_pc = "processed"
    /\ FailedOf(cost_self_results) # <<>>
    /\ projects[cost_project_id].status = "failed"

\* the result rows saved for a project, in order
SavedFor(project_id) == SelectSeq(processing_results, LAMBDA r : r.project_id = project_id)

\* C26: whenever the status of a run's project is completed after the run,
\* every component of the run's result list has been persisted as a result
\* row; a failed save persists none of the run's rows and the run is not
\* reported as completed.
C26_CompletedMeansPersisted ==
    LET version == get_active_kbob_version(kbob_versions)
    IN  /\ lca_pc = "done" =>
               /\ SavedFor(lca_project_id) \in {<<>>, ResultRows(lca_project_id, lca_results, version)}
               /\ projects[lca_project_id].status = "completed" =>
                      SavedFor(lca_project_id) = ResultRows(lca_project_id, lca_results, version)
        /\ cost_pc = "done" =>
               /\ SavedFor(cost_project_id) \in {<<>>, ResultRows(cost_project_id, cost_self_results, version)}
               /\ projects[cost_project_id].status = "completed" =>
                      SavedFor(cost_project_id) = ResultRows(cost_project_id, cost_self_results, version)

\* the history rows written for a project, in order
HistoryFor(project_id) == SelectSeq(processing_history, LAMBDA h : h.project_id = project_id)

\* the number of elements of a result list with at least one failed component
ElementsWithFailure(rs) ==
    Cardinality({k \in 1..Len(rs) : \E j \in 1..Len(rs[k].components) : rs[k].components[j].failed})

\* C28: in every processing-history record written by a run processed_elements
\* and failed_elements are at most total_elements, and failed_elements is the
\* number of elements of the batch that have at least one failed component or
\* were skipped.
C28_HistoryCounters ==
    /\ \A k \in 1..Len(processing_history) :
           /\ processing_history[k].processed_elements <= processing_history[k].total_elements
           /\ processing_history[k].failed_elements <= processing_history[k].total_elements
    /\ lca_pc \in {"processed", "done"} =>
           /\ Len(HistoryFor(lca_project_id)) = 1
           /\ HistoryFor(lca_project_id)[1].failed_elements =
                  ElementsWithFailure(lca_results) + (Len(lca_element_data) - Len(lca_results))
    /\ cost_pc \in {"processed", "done"} =>
           /\ Len(HistoryFor(cost_project_id)) = 1
           /\ HistoryFor(cost_project_id)[1].failed_elements =
                  ElementsWithFailure(cost_self_results)

\* ------------------------------------------------------------ C29, C30
\* the version is stored in kbob_versions
VersionExists(version) == \E r \in kbob_versions : r.version = version

\* C29 as stated: set_active_kbob_version with a version that is not stored
\* raises and leaves the activation flags as they were, whichever way it is
\* called
C29_UnknownVersionUnchanged ==
    [][\A version \in AdminVersions, use_transaction \in BOOLEAN :
          (set_active_kbob_version(version, use_transaction) /\ ~VersionExists(version))
              => /\ admin_exc' # NoExc
                 /\ kbob_versions' = kbob_versions]_vars

\* C29 amended: set_active_kbob_version with a version that is not stored,
\* called with its own transaction (use_transaction=True, the default),
\* raises ValueError and leaves the activation flags as they were: the
\* version that was active before is still the active one
C29_UnknownVersionRolledBack ==
    [][\A version \in AdminVersions :
          (set_active_kbob_version(version, TRUE) /\ ~VersionExists(version))
              => /\ admin_exc' = Exc("ValueError", "Version not found", version, 0)
                 /\ kbob_versions' = kbob_versions
                 /\ get_active_kbob_version(kbob_versions')
                        = get_active_kbob_version(kbob_versions)]_vars

\* C29 witness: the last call raised for a version that is not stored, and a
\* version is still active
C29_Witness ==
    /\ admin_exc # NoExc
    /\ ~VersionExists(admin_exc.name)
    /\ get_active_kbob_version(kbob_versions) # NoVersion

\* C30: import_kbob_data(version) changes only the material rows and the
\* metadata of that version and leaves unchanged which version is active, so
\* that after a re-import of the active version get_active_kbob_version still
\* returns it and an LCA run can start
C30_ImportKeepsActive ==
    [][\A csv \in KbobCsvFiles, version \in AdminVersions :
          import_kbob_data(csv, version)
              => /\ {r \in kbob_materials' : r.version # version}
                        = {r \in kbob_materials : r.version # version}
                 /\ {r \in kbob_versions' : r.version # version}
                        = {r \in kbob_versions : r.version # version}
                 /\ get_active_kbob_version(kbob_versions')
                        = get_active_kbob_version(kbob_versions)]_vars


\* ------------------------------------------------------------------ C27
\* the stored kbob_id of a material: the one of the last mapping row
StoredKbobId(material_name) ==
    LET rows == material_mappings_table
        ks == {k \in 1..Len(rows) : rows[k].ifc_material = material_name}
    IN  IF ks = {} THEN NoKey
        ELSE rows[CHOOSE k \in ks : \A o \in ks : o <= k].kbob_id

\* a stored material row of an element of the project with positive volume,
\* positive density, a mapping and a reference row of the active version
StoredRowWellFormed(r) ==
    /\ r.element_id \in DOMAIN ifc_elements
    /\ ifc_elements[r.element_id].project_id = lca_project_id
    /\ r.volume.tag = "num" /\ r.volume.v > 0
    /\ r.density.tag = "num" /\ r.density.v > 0
    /\ Truthy(StoredKbobId(r.material_name))
    /\ get_kbob_material(kbob_materials, StoredKbobId(r.material_name),
                         get_active_kbob_version(kbob_versions)) # {}

\* C27: when the LCA run loads its batch from storage, the volume and
\* density store_ifc_elements stored and the stored mappings are what
\* process_data computes with: once the run has ended, every well-formed
\* stored material row has a success component with the stored volume,
\* density and mapping
C27_StoredValuesUsed ==
    (input_file = NoPath /\ mappings_file = NoPath /\ LcaFinished)
        => \A k \in 1..Len(ifc_element_materials) :
              LET r == ifc_element_materials[k]
              IN  StoredRowWellFormed(r)
                     => \E j \in 1..Len(Flatten(lca_results)) :
                           LET c == Flatten(lca_results)[j]
                           IN  /\ c.guid = r.element_id
                               /\ c.material = r.material_name
                               /\ ~c.failed
                               /\ c.volume = 10 * r.volume.v
                               /\ c.density = 1000 * r.density.v
                               /\ c.mat_kbob = StoredKbobId(r.material_name)


\* ------------------------------------------------------------------ C23
\* the steps recorded for a message, in order
StepsOf(offset) ==
    LET events == SelectSeq(orch_trace, LAMBDA e : e.msg = offset)
    IN  [k \in 1..Len(events) |-> events[k].step]

\* the steps of a message handled to its response
FullRun ==
    <<"extract", "extract_returned", "lca", "lca_returned", "cost", "cost_returned", "produced">>

IsPrefix(s, t) == Len(s) <= Len(t) /\ \A k \in 1..Len(s) : s[k] = t[k]

\* the steps of a message: none yet, skipped, a run in its order so far, or
\* such a run cut short by the step last started raising
StepsInOrder(steps) ==
    \/ steps = <<"skipped">>
    \/ IsPrefix(steps, FullRun)
    \/ /\ Len(steps) >= 2
       /\ steps[Len(steps)] = "raised"
       /\ steps[Len(steps) - 1] \in {"extract", "lca", "cost"}
       /\ IsPrefix(SubSeq(steps, 1, Len(steps) - 1), FullRun)

Produced == SelectSeq(orch_trace, LAMBDA e : e.step = "produced")

\* C23: for each non-empty input message the orchestrator runs extraction,
\* then the LCA run, then the cost run, each step starting only after the
\* previous one has returned; a 'completed' response is published only
\* after all three returned without raising, at most one per message, and
\* an empty payload or a raising step publishes nothing and leaves the
\* consumer loop polling
C23_OrchestrationOrder ==
    /\ \A k \in 1..Len(orch_trace) : StepsInOrder(StepsOf(orch_trace[k].msg))
    /\ \A i, j \in 1..Len(orch_trace) : i < j => orch_trace[i].msg <= orch_trace[j].msg
    \* the engines move only inside their step
    /\ lca_pc \notin {"new", "done", "raised"} => orch_pc = "lca"
    /\ cost_pc \notin {"new", "done", "raised"} => (orch_pc = "cost" /\ lca_pc = "done")
    /\ orch_pc = "cost" => lca_pc = "done"
    \* one response per produced step, each after both runs returned
    /\ Len(output_topic) = Len(Produced)
    /\ \A k \in 1..Len(output_topic) : output_topic[k] = CompletedResponse(SharedProject)
    /\ \A i, j \in 1..Len(Produced) : i # j => Produced[i].msg # Produced[j].msg
    /\ (orch_trace # <<>> /\ orch_trace[Len(orch_trace)].step = "produced")
          => (lca_pc = "done" /\ cost_pc = "done")
    \* a skipped message, a raising step and a response all lead back to the poll
    /\ orch_pc \in {"poll", "extract", "lca", "cost"}
    /\ (orch_trace # <<>> /\ orch_trace[Len(orch_trace)].step \in {"skipped", "raised", "produced"})
          => orch_pc = "poll"
    /\ orch_pc = "poll" => (orch_trace = <<>> \/ orch_trace[Len(orch_trace)].step \in {"skipped", "raised", "produced"})
    \* a message with an empty payload starts no step
    /\ Strip(orch_msg.value) = ""
          => (orch_pc = "poll" /\ StepsOf(orch_msg.offset) \in {<<>>, <<"skipped">>})

\* C23 witness: a response produced for the third message after two
\* messages were skipped for an error and an empty payload
C23_Witness ==
    /\ StepsOf(1) = <<"skipped">>
    /\ StepsOf(2) = <<"skipped">>
    /\ StepsOf(3) = FullRun
    /\ Len(output_topic) = 1

\* a message handled after a step of the message before it raised
RaisedThenHandled ==
    /\ Len(StepsOf(1)) >= 2
    /\ StepsOf(1)[Len(StepsOf(1))] = "raised"
    /\ StepsOf(2) = FullRun

====
